---- MODULE Spec2Model ----
(***************************************************************************)
(* Model of the llama-conversation repository: the conversation script     *)
(* (ollama-conversation.py) and the batch monitor (llama-prompt-monitor.py).*)
(*                                                                         *)
(* Text is a sequence of tokens.  "D" is the three dashes '---', "HUMAN"   *)
(* and "AI" the marker words, so <<"D","HUMAN","D">> is '---HUMAN---';    *)
(* "nl" is a newline, "sp" a blank, "G" the text '# Generated:',          *)
(* "x" and "y" ordinary words.  Configuration text uses "mt"               *)
(* ('max_tokens'), "to" ('timeout'), "temp" ('temperature'), "topp"        *)
(* ('top_p'), "key" (any other key), ":" , "#", "num" (an integer          *)
(* literal), "flt" (a float literal that is no integer), "none".           *)
(***************************************************************************)
EXTENDS Integers, Sequences, FiniteSets, TLC

VARIABLES
    fs,           \* the watched directory: [Names -> [present, content]]
    backendBusy,  \* the external busy signal (models loaded or CPU high)
    args,         \* the monitor's options: [continuous, dry_run]
    active,       \* the monitor invocations that run
    mon,          \* per invocation: the locals of main / process_directory
    job,          \* per invocation: the conversation script run as a subprocess
    hist,         \* observation only: the initial directory, the names renamed to
    env,          \* the external steps taken so far
    raw,          \* the text the parsing pipeline is applied to
    out,          \* what the pipeline produced from raw
    ppc           \* the pipeline's position

vars == <<fs, backendBusy, args, active, mon, job, hist, env, raw, out, ppc>>

monVars == <<fs, backendBusy, args, active, mon, job, hist, env>>
pureVars == <<raw, out, ppc>>

-----------------------------------------------------------------------------
(* Bounds of the model *)

\* sweeps a continuous-mode monitor is followed for
MaxTicks == 2
\* external steps (writer, deletion, operator, busy signal) in one behaviour
MaxEnv == 1
\* pieces a raw text is built from
MaxPieces == 5
\* the longest literal turn sequence build_ollama_messages is applied to
MaxTurns == 2
\* lines in a configuration block
MaxConfigLines == 2
\* tokens in a response of the backend
MaxResponse == 4
\* pieces of the documents, tokens of the responses of the round trip
MaxRoundPieces == 3
MaxRoundResponse == 2

-----------------------------------------------------------------------------
(* Strings: str.strip, str.split, 'in', startswith *)

IsSpace(t) == t \in {"nl", "sp"}

RECURSIVE LStrip(_)
LStrip(s) ==
    IF s # <<>> /\ IsSpace(Head(s)) THEN LStrip(Tail(s)) ELSE s

RECURSIVE RStrip(_)
RStrip(s) ==
    IF s # <<>> /\ IsSpace(s[Len(s)]) THEN RStrip(SubSeq(s, 1, Len(s) - 1)) ELSE s

\* s.strip()
Strip(s) == RStrip(LStrip(s))

\* index of the first token of s in set T, 0 when there is none
RECURSIVE FirstIn(_, _, _)
FirstIn(s, T, i) ==
    IF i > Len(s) THEN 0
    ELSE IF s[i] \in T THEN i
    ELSE FirstIn(s, T, i + 1)

\* s.split(sep): the pieces between the tokens of set T, all of them
RECURSIVE SplitOn(_, _)
SplitOn(s, T) ==
    LET i == FirstIn(s, T, 1)
    IN  IF i = 0 THEN <<s>>
        ELSE <<SubSeq(s, 1, i - 1)>> \o SplitOn(SubSeq(s, i + 1, Len(s)), T)

\* '\n'.join(lines)
RECURSIVE JoinLines(_)
JoinLines(ls) ==
    IF ls = <<>> THEN <<>>
    ELSE IF Len(ls) = 1 THEN ls[1]
    ELSE ls[1] \o <<"nl">> \o JoinLines(Tail(ls))

-----------------------------------------------------------------------------
(* parse_prompt_file *)

\* tokens that contain the character ':' / start with the character '#'
Colons == {":", "G"}
Hashes == {"#", "G"}

ConfigDefaults ==
    [max_tokens |-> "256", temperature |-> "0.7", top_p |-> "0.9",
     timeout |-> "180", other |-> "unset"]

\* an int() that takes any text
IntOkAlways(value) == TRUE

\* int(value) / float(value) succeed
IntOk(value) == value = <<"num">>
FloatOk(value) == value \in {<<"num">>, <<"flt">>}

\* one line of the configuration block applied to [err, config]
ConfigLine(acc, rawline) ==
    LET line == Strip(rawline)
        c == FirstIn(line, Colons, 1)
    IN  IF acc.err \/ line = <<>> \/ c = 0 \/ Head(line) \in Hashes THEN acc
        ELSE
          LET key == Strip(SubSeq(line, 1, c - 1)
                           \o (IF line[c] = "G" THEN <<"#Generated">> ELSE <<>>))
              value0 == Strip(SubSeq(line, c + 1, Len(line)))
              h == FirstIn(value0, Hashes, 1)
              value == IF h = 0 THEN value0 ELSE Strip(SubSeq(value0, 1, h - 1))
          IN  IF key \in {<<"mt">>, <<"to">>}
              THEN LET k == IF key = <<"mt">> THEN "max_tokens" ELSE "timeout"
                   IN  IF value = <<"none">>
                       THEN [acc EXCEPT !.config[k] = "None"]
                       ELSE IF IntOk(value)
                       THEN [acc EXCEPT !.config[k] = "num"]
                       ELSE [acc EXCEPT !.err = TRUE]
              ELSE IF key \in {<<"temp">>, <<"topp">>}
              THEN LET k == IF key = <<"temp">> THEN "temperature" ELSE "top_p"
                   IN  IF FloatOk(value)
                       THEN [acc EXCEPT !.config[k] = value[1]]
                       ELSE [acc EXCEPT !.err = TRUE]
              ELSE [acc EXCEPT !.config.other = "set"]

RECURSIVE ConfigLines(_, _)
ConfigLines(acc, ls) ==
    IF ls = <<>> THEN acc ELSE ConfigLines(ConfigLine(acc, Head(ls)), Tail(ls))

\* the loop over config_part.strip().split('\n')
ParseConfig(config_part) ==
    ConfigLines([err |-> FALSE, config |-> ConfigDefaults],
                SplitOn(Strip(config_part), {"nl"}))

NoParse ==
    [error |-> "none", config_part |-> <<>>, conversation_part |-> <<>>,
     config |-> ConfigDefaults, conversation_text |-> <<>>]

\* content.rsplit('---', 1) in place of split: the cut at the last '---'
SeparatorLast(content) ==
    CHOOSE i \in 1..Len(content) :
        content[i] = "D" /\ \A j \in (i + 1)..Len(content) : content[j] # "D"

\* where content.split('---', 1) cuts
Separator(content) == FirstIn(content, {"D"}, 1)

\* parse_prompt_file on the text read from the file
parse_prompt_file(content) ==
    IF ~(\E i \in 1..Len(content) : content[i] = "D")
    THEN [NoParse EXCEPT !.error = "FormatError"]
    ELSE
      LET i == Separator(content)
          config_part == SubSeq(content, 1, i - 1)
          conversation_part == SubSeq(content, i + 1, Len(content))
          parsed == ParseConfig(config_part)
      IN  [error |-> IF parsed.err THEN "ConfigError" ELSE "none",
           config_part |-> config_part,
           conversation_part |-> conversation_part,
           config |-> parsed.config,
           conversation_text |-> Strip(conversation_part)]

-----------------------------------------------------------------------------
(* parse_conversation_sections *)

\* the pattern ---(HUMAN|AI)--- matches at position i of s
IsMarkerAt(s, i) ==
    /\ i + 2 <= Len(s)
    /\ s[i] = "D"
    /\ s[i + 1] \in {"HUMAN", "AI"}
    /\ s[i + 2] = "D"

\* re.split(r'---(?:HUMAN|AI)---', s): the text between the matches, found left
\* to right without overlap; cur is the piece being collected
RECURSIVE ReSplit(_, _, _)
ReSplit(s, i, cur) ==
    IF i > Len(s) THEN <<cur>>
    ELSE IF IsMarkerAt(s, i) THEN <<cur>> \o ReSplit(s, i + 3, <<>>)
    ELSE ReSplit(s, i + 1, Append(cur, s[i]))

\* re.findall(r'---(HUMAN|AI)---', s): the word of each match, in order
RECURSIVE ReFindAll(_, _)
ReFindAll(s, i) ==
    IF i > Len(s) THEN <<>>
    ELSE IF IsMarkerAt(s, i) THEN <<s[i + 1]>> \o ReFindAll(s, i + 3)
    ELSE ReFindAll(s, i + 1)

\* [s.strip() for s in sections if s.strip()], without the filter
RECURSIVE StripAll(_)
StripAll(ss) ==
    IF ss = <<>> THEN <<>>
    ELSE <<Strip(Head(ss))>> \o StripAll(Tail(ss))

\* [s.strip() for s in sections if s.strip()]
RECURSIVE StripNonEmpty(_)
StripNonEmpty(ss) ==
    IF ss = <<>> THEN <<>>
    ELSE (IF Strip(Head(ss)) # <<>> THEN <<Strip(Head(ss))>> ELSE <<>>)
         \o StripNonEmpty(Tail(ss))

\* header.lower()
Lower(h) == IF h = "HUMAN" THEN "human" ELSE "ai"

\* parse_conversation_sections on the conversation text
\* the check of the counts left out: zip pairs as many as both lists have
SectionsZipped(conversation_text) ==
    LET sections == StripNonEmpty(ReSplit(conversation_text, 1, <<>>))
        headers == ReFindAll(conversation_text, 1)
        n == IF Len(headers) < Len(sections) THEN Len(headers) ELSE Len(sections)
    IN  [error |-> "none",
         sections |-> [k \in 1..n |->
                         [type |-> Lower(headers[k]),
                          content |-> Strip(sections[k])]]]

\* parse_conversation_sections on the stripped conversation part
parse_conversation_sections(conversation_text) ==
    LET sections == StripNonEmpty(ReSplit(conversation_text, 1, <<>>))
        headers == ReFindAll(conversation_text, 1)
    IN  IF Len(headers) # Len(sections)
        THEN [error |-> "FormatError", sections |-> <<>>]
        ELSE [error |-> "none",
              sections |-> [k \in 1..Len(headers) |->
                              [type |-> Lower(headers[k]),
                               content |-> Strip(sections[k])]]]

-----------------------------------------------------------------------------
(* build_ollama_messages *)

\* the lines kept: those that do not start, once stripped, with '# Generated:'
RECURSIVE DropGenerated(_)
DropGenerated(ls) ==
    IF ls = <<>> THEN <<>>
    ELSE (IF Strip(Head(ls)) # <<>> /\ Head(Strip(Head(ls))) = "G"
          THEN <<>> ELSE <<Head(ls)>>)
         \o DropGenerated(Tail(ls))

\* the cleaning without the filter on the lines
CleanNothing(text) == Strip(text)

\* '\n'.join(the kept lines).strip()
CleanGenerated(text) == Strip(JoinLines(DropGenerated(SplitOn(text, {"nl"}))))

\* build_ollama_messages without 'if clean_ai_content'
RECURSIVE BuildKeepingEmpty(_)
BuildKeepingEmpty(sections) ==
    IF sections = <<>> THEN <<>>
    ELSE LET section == Head(sections)
         IN  <<[role |-> IF section.type = "human" THEN "user" ELSE "assistant",
                content |-> IF section.type = "human" THEN section.content
                            ELSE CleanGenerated(section.content)]>>
             \o BuildKeepingEmpty(Tail(sections))

\* build_ollama_messages with the filter applied to the human sections too
RECURSIVE BuildCleaningAll(_)
BuildCleaningAll(sections) ==
    IF sections = <<>> THEN <<>>
    ELSE LET section == Head(sections)
             clean == CleanGenerated(section.content)
         IN  (IF clean # <<>>
              THEN <<[role |-> IF section.type = "human" THEN "user" ELSE "assistant",
                      content |-> clean]>>
              ELSE <<>>)
             \o BuildCleaningAll(Tail(sections))

RECURSIVE build_ollama_messages(_)
build_ollama_messages(sections) ==
    IF sections = <<>> THEN <<>>
    ELSE
      LET section == Head(sections)
          rest == build_ollama_messages(Tail(sections))
      IN  IF section.type = "human"
          THEN <<[role |-> "user", content |-> section.content]>> \o rest
          ELSE LET clean_ai_content == CleanGenerated(section.content)
               IN  IF clean_ai_content # <<>>
                   THEN <<[role |-> "assistant", content |-> clean_ai_content]>> \o rest
                   ELSE rest

-----------------------------------------------------------------------------
(* append_response_to_file *)

\* the stats line: '# Generated: <timestamp> (<seconds>s[, tokens])\n'
StatsLine(token_info) ==
    <<"G", "ts", "secs">> \o (IF token_info THEN <<"tokens">> ELSE <<>>) \o <<"nl">>

\* the block with the response written as it came, without strip()
AppendedBlockUntrimmed(response_text, token_info) ==
    <<"nl", "nl", "D", "AI", "D", "nl">>
    \o StatsLine(token_info)
    \o response_text
    \o <<"nl", "nl", "D", "HUMAN", "D", "nl">>

\* what the four writes of append_response_to_file add to the file
AppendedBlock(response_text, token_info) ==
    <<"nl", "nl", "D", "AI", "D", "nl">>
    \o StatsLine(token_info)
    \o Strip(response_text)
    \o <<"nl", "nl", "D", "HUMAN", "D", "nl">>

\* what the backend may answer: plain text, or text echoing a metadata line
Responses == {<<"y", "nl">>, <<"G", "ts", "nl", "y">>}

\* the file opened in mode 'w': what was there is lost
Overwritten(content, block) == block

\* the file after open(filepath, 'a') and the writes
Appended(content, block) == content \o block

\* append_response_to_file on a file with the given content
append_response_to_file(content, response_text, token_info) ==
    Appended(content, AppendedBlock(response_text, token_info))


-----------------------------------------------------------------------------
(* generate_ollama_response: the options of the request *)

\* a payload that carries max_tokens whatever it is
PayloadCapped(config) ==
    [temperature |-> config.temperature, top_p |-> config.top_p,
     num_predict |-> config.max_tokens]

\* payload["options"]: num_predict is added only 'if config['max_tokens'] is
\* not None'
Payload(config) ==
    [temperature |-> config.temperature, top_p |-> config.top_p,
     num_predict |-> IF config.max_tokens # "None" THEN config.max_tokens
                     ELSE "absent"]

-----------------------------------------------------------------------------
(* main of ollama-conversation.py, up to the first request to the backend *)

\* main: the two checks on the parsed sections, left out
SectionsUnchecked(sections) == "none"

\* main: 'if not sections' and 'if sections[-1]['type'] != 'human''
SectionsError(sections) ==
    IF sections = <<>> THEN "NoSections"
    ELSE IF sections[Len(sections)].type # "human" THEN "LastNotHuman"
    ELSE "none"

\* main, from parse_prompt_file to build_ollama_messages: the exit status it
\* ends with before any request (0: it goes on to the backend) and the error
Prepare(content) ==
    LET file == parse_prompt_file(content)
        conv == parse_conversation_sections(file.conversation_text)
    IN  IF file.error # "none"
        THEN [exit |-> 1, error |-> file.error, parsed |-> FALSE,
              sections |-> <<>>, messages |-> <<>>, config |-> file.config]
        ELSE IF conv.error # "none"
        THEN [exit |-> 1, error |-> conv.error, parsed |-> FALSE,
              sections |-> <<>>, messages |-> <<>>, config |-> file.config]
        ELSE IF SectionsError(conv.sections) # "none"
        THEN [exit |-> 1, error |-> SectionsError(conv.sections), parsed |-> TRUE,
              sections |-> conv.sections, messages |-> <<>>,
              config |-> file.config]
        ELSE [exit |-> 0, error |-> "none", parsed |-> TRUE,
              sections |-> conv.sections,
              messages |-> build_ollama_messages(conv.sections),
              config |-> file.config]

-----------------------------------------------------------------------------
(* The parsing pipeline applied to every small text *)

Pieces ==
    {<<"D">>, <<"D", "HUMAN", "D">>, <<"D", "AI", "D">>, <<"nl">>, <<"x">>, <<"G">>}

\* the texts made of at most n pieces
RECURSIVE TextsOf(_)
TextsOf(n) ==
    IF n = 0 THEN {<<>>}
    ELSE LET S == TextsOf(n - 1)
         IN  S \cup {p \o t : p \in Pieces, t \in S}

NoSections == [error |-> "none", sections |-> <<>>]

OutInit ==
    [file |-> NoParse, conv |-> NoSections, messages |-> <<>>, appended |-> <<>>,
     payload |-> Payload(ConfigDefaults), generated_text |-> <<>>,
     human_text |-> <<>>]

PureIdle ==
    /\ raw = <<>>
    /\ out = OutInit
    /\ ppc = "off"

P_parse_prompt_file ==
    /\ ppc = "start"
    /\ out' = [out EXCEPT !.file = parse_prompt_file(raw)]
    /\ ppc' = IF out'.file.error = "none" THEN "file" ELSE "exit1"
    /\ UNCHANGED raw

P_parse_conversation_sections ==
    /\ ppc = "file"
    /\ out' = [out EXCEPT
                 !.conv = parse_conversation_sections(out.file.conversation_text)]
    /\ ppc' = IF out'.conv.error = "none" THEN "sections" ELSE "exit1"
    /\ UNCHANGED raw

P_build_ollama_messages ==
    /\ ppc = "sections"
    /\ out' = [out EXCEPT !.messages = build_ollama_messages(out.conv.sections)]
    /\ ppc' = "messages"
    /\ UNCHANGED raw

\* main: generate_ollama_response builds the payload from the parsed options
P_generate_ollama_response ==
    /\ ppc = "messages"
    /\ out' = [out EXCEPT !.payload = Payload(out.file.config)]
    /\ ppc' = "request"
    /\ UNCHANGED raw

\* response texts and token statistics append_response_to_file is called with:
\* an answer, an answer with a metadata line, one with a marker, the empty one
AppendInputs ==
    {[response_text |-> <<"y", "nl">>, token_info |-> TRUE],
     [response_text |-> <<"G", "ts", "nl", "y">>, token_info |-> FALSE],
     [response_text |-> <<"D", "HUMAN", "D", "x">>, token_info |-> TRUE],
     [response_text |-> <<>>, token_info |-> FALSE]}

\* append_response_to_file applied to a file that holds the text
P_append_response_to_file ==
    /\ ppc = "start"
    /\ \E a \in AppendInputs :
          out' = [out EXCEPT !.appended =
                    append_response_to_file(raw, a.response_text, a.token_info)]
    /\ ppc' = "appended"
    /\ UNCHANGED raw

\* main: the cleaning of the text the backend returned (raw)
P_clean_generated_text ==
    /\ ppc = "response"
    /\ out' = [out EXCEPT !.generated_text = CleanGenerated(Strip(raw))]
    /\ ppc' = "cleaned"
    /\ UNCHANGED raw

\* main: append_response_to_file with the cleaned text, on the prompt file
\* (here a document that ends in a human turn)
P_append_generated_text ==
    /\ ppc = "cleaned"
    /\ \E token_info \in BOOLEAN :
          out' = [out EXCEPT !.appended =
                    append_response_to_file(out.file.conversation_part,
                                            out.generated_text, token_info)]
    /\ ppc' = "written"
    /\ UNCHANGED raw

\* what the user types behind the trailing ---HUMAN--- marker: a word, a
\* blank, text with space around it, two lines, a line like a metadata line
HumanTexts ==
    {<<"x">>, <<"sp">>, <<"sp", "x", "nl">>, <<"x", "nl", "y">>, <<"G", "x">>}

\* append_response_to_file with the response text (out.generated_text) on
\* the document (raw)
P_round_append ==
    /\ ppc = "round"
    /\ \E token_info \in BOOLEAN :
          out' = [out EXCEPT !.appended =
                    append_response_to_file(raw, out.generated_text, token_info)]
    /\ ppc' = "answered"
    /\ UNCHANGED raw

\* the user adds the next question at the end of the file
P_round_human ==
    /\ ppc = "answered"
    /\ \E h \in HumanTexts :
          out' = [out EXCEPT !.appended = @ \o h, !.human_text = h]
    /\ ppc' = "asked"
    /\ UNCHANGED raw

\* main on the edited file: parse_prompt_file, parse_conversation_sections
\* and build_ollama_messages
P_round_parse ==
    /\ ppc = "asked"
    /\ \E file \in {parse_prompt_file(out.appended)} :
       \E conv \in {IF file.error = "none"
                    THEN parse_conversation_sections(file.conversation_text)
                    ELSE NoSections} :
          out' = [out EXCEPT !.file = file,
                             !.conv = conv,
                             !.messages = IF file.error = "none" /\ conv.error = "none"
                                          THEN build_ollama_messages(conv.sections)
                                          ELSE <<>>]
    /\ ppc' = "reparsed"
    /\ UNCHANGED raw

-----------------------------------------------------------------------------
(* The watched directory *)

Procs == {1, 2}
Bases == {"a", "b"}

\* a file name is the sequence of its dot-separated parts: a.prompt.complete
PromptName(b) == <<b, "prompt">>
Names ==
    {PromptName(b) : b \in Bases}
    \cup {PromptName(b) \o <<"complete">> : b \in Bases}
    \cup {PromptName(b) \o <<"error">> : b \in Bases}
    \cup {<<"a", "txt">>}

PromptNames == {PromptName(b) : b \in Bases}
TerminalNames == {n \in Names : n[Len(n)] \in {"complete", "error"}}

Missing == [present |-> FALSE, content |-> <<>>]
File(c) == [present |-> TRUE, content |-> c]

\* name.endswith('.' + '.'.join(suffix))
EndsWith(name, suffix) ==
    /\ Len(name) > Len(suffix)
    /\ SubSeq(name, Len(name) - Len(suffix) + 1, Len(name)) = suffix

\* glob.glob over a pattern that matches every file of the directory
GlobAll(dir) == {n \in DOMAIN dir : dir[n].present}

\* glob.glob over the pattern '*.prompt*'
GlobWide(dir) ==
    {n \in DOMAIN dir : dir[n].present /\ \E i \in 2..Len(n) : n[i] = "prompt"}

\* glob.glob(os.path.join(directory, "*.prompt"))
Glob(dir) == {n \in DOMAIN dir : dir[n].present /\ EndsWith(n, <<"prompt">>)}

\* the paths find_prompt_files returns (in some order)
find_prompt_files(dir) ==
    {n \in Glob(dir) : ~EndsWith(n, <<"prompt", "complete">>)}

\* the orders a directory listing can come in
Orderings(S) ==
    {q \in [1..Cardinality(S) -> S] : \A i, j \in DOMAIN q : i # j => q[i] # q[j]}

\* a rename that leaves an empty file under the new name
RenameEmptying(dir, src, dst) == [dir EXCEPT ![dst] = File(<<>>), ![src] = Missing]

\* os.rename(src, dst) when it succeeds
Rename(dir, src, dst) == [dir EXCEPT ![dst] = dir[src], ![src] = Missing]

-----------------------------------------------------------------------------
(* Documents and responses the monitor is run on *)

Sep == <<"D", "nl">>
HumanTurn == <<"D", "HUMAN", "D", "nl", "x", "nl">>
AiTurn == <<"nl", "D", "AI", "D", "nl", "G", "ts", "secs", "nl", "y", "nl", "nl">>

\* one Human turn, a numeric option
DocHuman == <<"mt", ":", "num", "nl", "to", ":", "num", "nl">> \o Sep \o HumanTurn
\* Human, Ai, Human
DocSecondRound == Sep \o HumanTurn \o AiTurn \o HumanTurn
\* the last turn is Ai
DocAiTail == Sep \o HumanTurn \o AiTurn
\* a separator and no turn
DocNoTurns == Sep
\* a marker without content
DocMismatch == Sep \o <<"D", "HUMAN", "D", "nl">> \o AiTurn
\* a numeric option that is no number
DocBadConfig == <<"mt", ":", "x", "nl">> \o Sep \o HumanTurn

\* float('none') raises ValueError: none is a value of max_tokens and timeout only
DocBadFloat == <<"temp", ":", "none", "nl">> \o Sep \o HumanTurn

DocsA ==
    {DocHuman, DocAiTail, DocNoTurns, DocMismatch, DocBadConfig, DocBadFloat}
DocsB == {DocSecondRound}



-----------------------------------------------------------------------------
(* llama-prompt-monitor.py *)

\* OllamaMonitor.is_busy
is_busy(backend) == backend.models_loaded \/ backend.cpu_high

\* sys.exit after "Ollama is active. Aborting.", with the status of a normal end
BusyExitNormal == 2 - 2

\* the status of sys.exit after "Ollama is active. Aborting."
BusyExitStatus == 2

\* main, after monitor.is_busy(): abort, or enter the processing loop
BusyGate(busy, continuous) == IF busy THEN "exit" ELSE "sweep"

\* os.path.getsize: the size, or -1 for the OSError of a missing file
GetSize(file) == IF file.present THEN Len(file.content) ELSE -1

\* is_file_ready with a comparison that lets a growing file through
FileReadyGrowing(size1, size2) == size1 <= size2

\* is_file_ready: the comparison of the two sizes
FileReady(size1, size2) == size1 = size2

\* is_file_ready: False from the except clause when a getsize raised
is_file_ready(size1, size2) ==
    IF size1 = -1 \/ size2 = -1 THEN FALSE ELSE FileReady(size1, size2)

\* the positions of a script that has been started and has not ended
InFlight == {"read", "validate", "generate", "append", "exiting"}

\* process_directory holding a file back while a script of any invocation runs
AfterCheckLocked(ready, dry_run) ==
    IF ~ready \/ (\E q \in active : job[q].pc \in InFlight) THEN "skip"
    ELSE IF dry_run THEN "dry" ELSE "process"

\* process_directory without its 'if args.dry_run' branch
AfterCheckWet(ready, dry_run) == IF ~ready THEN "skip" ELSE "process"

\* process_directory with the stability check ignored
AfterCheckIgnored(ready, dry_run) == IF dry_run THEN "dry" ELSE "process"

\* process_directory: the branch taken after is_file_ready
AfterCheck(ready, dry_run) ==
    IF ~ready THEN "skip" ELSE IF dry_run THEN "dry" ELSE "process"

\* an exception that no handler of the function catches: it ends in main's
\* 'except Exception', which logs it and calls sys.exit(1)
ExceptionEscapes(function) == "crashed"

\* where the monitor goes on after an exception inside one of its functions:
\* each catches it and returns (False, False, None)
OnException(function) ==
    CASE function = "is_file_ready" -> "loop"
      [] function = "process_prompt_file" -> "mark"
      [] function = "mark_as_complete" -> "loop"

\* a child started and not waited for: the monitor goes on to the rename
SubprocessStarted == "mark"

\* process_prompt_file: subprocess.run returns only when the child has ended or
\* the timeout has expired; until then the monitor is inside the call
SubprocessRun == "run"

\* process_prompt_file: True only on return code 0; variant that ignores the code
SucceededAlways(returncode, timed_out) == ~timed_out

\* process_prompt_file: True only when the subprocess returned with code 0
Succeeded(returncode, timed_out) == ~timed_out /\ returncode = 0

\* mark_as_complete: the suffixes swapped
NewNameSwapped(prompt_file, success) ==
    IF success THEN prompt_file \o <<"error">> ELSE prompt_file \o <<"complete">>

\* mark_as_complete: the name the file is renamed to
NewName(prompt_file, success) ==
    IF success THEN prompt_file \o <<"complete">> ELSE prompt_file \o <<"error">>

\* process_directory: counting every marked file, renamed or not
CountAfterMarkAlways(processed_count, renamed) == processed_count + 1

\* process_directory: processed_count after mark_as_complete returned
CountAfterMark(processed_count, renamed) ==
    IF renamed THEN processed_count + 1 ELSE processed_count

\* subprocess.run(..., timeout=7200): seconds after which the monitor kills the
\* script
OuterTimeout == 7200

\* config['timeout'] when the document does not set it
DefaultTimeout == 180

\* the seconds a timeout option of the document stands for: the one integer the
\* documents here give is longer than the monitor waits; None is no limit
TimeoutSeconds(timeout) ==
    CASE timeout = "180" -> DefaultTimeout
      [] timeout = "num" -> OuterTimeout + DefaultTimeout
      [] timeout = "None" -> 0

\* how long the backend takes to answer the chat request: at once, or longer
\* than the monitor waits
BackendTimes == {1, OuterTimeout + 1}

\* requests.post(..., timeout=timeout): the seconds after which the call is
\* over, with the answer or with requests.exceptions.Timeout (0: no limit)
CallTime(timeout, backend_time) ==
    IF timeout # 0 /\ backend_time > timeout THEN timeout ELSE backend_time

\* a monitor that waits as long as the document's timeout option says
SubprocessTimeoutOfDocument(timeout) ==
    IF timeout = 0 THEN OuterTimeout ELSE timeout

\* process_prompt_file: the timeout given to subprocess.run
SubprocessTimeout(timeout) == OuterTimeout

\* observation only: the initial directory, the names the monitor renamed
\* files to, the names it skipped, the names it could not rename
NoHist(dir) == [settled |-> {}, fs0 |-> dir, skipped |-> {}, unrenamed |-> {}]

NoJob ==
    [pc |-> "none", path |-> <<>>, content |-> <<>>, error |-> "none",
     parsed |-> FALSE, sections |-> <<>>, timeout |-> DefaultTimeout, call |-> 0,
     generated_text |-> <<>>, requests |-> 0, appended |-> FALSE]

NoLast ==
    [path |-> <<>>, content |-> <<>>, error |-> "none", outcome |-> "none",
     parsed |-> FALSE, sections |-> <<>>,
     success |-> FALSE, target |-> <<>>, renamed |-> FALSE, appended |-> FALSE,
     timeout |-> DefaultTimeout, call |-> 0, requests |-> 0, read |-> FALSE]

\* the last call of is_file_ready: the two sizes (-1: not obtained), the result
NoCheck == [path |-> <<>>, size1 |-> -1, size2 |-> -1, ready |-> FALSE, done |-> FALSE]

MonIdle ==
    [pc |-> "off", busy |-> "unknown", busy_checks |-> 0, ticks |-> 0,
     prompt_files |-> <<>>, idx |-> 0, size1 |-> 0, processed_count |-> 0,
     count |-> 0, success |-> FALSE, outcome |-> "none", exit_status |-> -1,
     attempted |-> <<>>, stable |-> 0, renames |-> <<>>, swept_busy |-> FALSE,
     skipped |-> <<>>, marked |-> 0, last |-> NoLast, check |-> NoCheck]

Idle == [models_loaded |-> FALSE, cpu_high |-> FALSE]

\* the file the for loop of process_directory is at
Current(p) == mon[p].prompt_files[mon[p].idx]

\* main: monitor.is_busy() and the abort
Main(p) ==
    /\ mon[p].pc = "main"
    /\ LET busy == is_busy(backendBusy)
           next == BusyGate(busy, args.continuous)
       IN  mon' = [mon EXCEPT
                     ![p].busy = IF busy THEN "busy" ELSE "idle",
                     ![p].busy_checks = @ + 1,
                     ![p].pc = next,
                     ![p].exit_status = IF next = "exit" THEN BusyExitStatus ELSE @]
    /\ UNCHANGED <<fs, backendBusy, args, active, job, hist, env, pureVars>>

\* process_directory: find_prompt_files and the early return
ProcessDirectory(p) ==
    /\ mon[p].pc = "sweep"
    /\ \E order \in Orderings(find_prompt_files(fs)) :
         mon' = [mon EXCEPT
                   ![p].ticks = @ + 1,
                   ![p].prompt_files = order,
                   ![p].idx = 1,
                   ![p].processed_count = 0,
                   ![p].attempted = <<>>,
                   ![p].stable = 0,
                   ![p].renames = <<>>,
                   ![p].skipped = <<>>,
                   ![p].marked = 0,
                   ![p].last = NoLast,
                   ![p].check = NoCheck,
                   ![p].swept_busy = @ \/ is_busy(backendBusy),
                   ![p].count = IF order = <<>> THEN 0 ELSE @,
                   ![p].pc = IF order = <<>> THEN "returned" ELSE "loop"]
    /\ UNCHANGED <<fs, backendBusy, args, active, job, hist, env, pureVars>>

\* process_directory: the head of the for loop, and the first size sample of
\* is_file_ready (OSError: not ready, the file is skipped)
Loop(p) ==
    /\ mon[p].pc = "loop"
    /\ IF mon[p].idx > Len(mon[p].prompt_files)
       THEN /\ mon' = [mon EXCEPT ![p].pc = "returned",
                                  ![p].count = mon[p].processed_count]
            /\ UNCHANGED hist
       ELSE IF GetSize(fs[Current(p)]) = -1
       THEN /\ mon' = [mon EXCEPT ![p].idx = @ + 1, ![p].last = NoLast,
                                  ![p].skipped = Append(@, Current(p)),
                                  ![p].pc = OnException("is_file_ready"),
                                  ![p].check = [path |-> Current(p), size1 |-> -1,
                                                size2 |-> -1,
                                                ready |-> is_file_ready(-1, -1),
                                                done |-> TRUE]]
            /\ hist' = [hist EXCEPT !.skipped = @ \cup {Current(p)}]
       ELSE /\ mon' = [mon EXCEPT ![p].size1 = GetSize(fs[Current(p)]),
                                  ![p].pc = "sleep",
                                  ![p].last = NoLast,
                                  ![p].check = NoCheck]
            /\ UNCHANGED hist
    /\ UNCHANGED <<fs, backendBusy, args, active, job, env, pureVars>>

\* is_file_ready after the sleep: the second sample; then the dry-run branch
\* or the call of process_prompt_file (the subprocess starts)
Sleep(p) ==
    /\ mon[p].pc = "sleep"
    /\ LET f == Current(p)
           size2 == GetSize(fs[f])
           ready == is_file_ready(mon[p].size1, size2)
           check == [path |-> f, size1 |-> mon[p].size1, size2 |-> size2,
                     ready |-> ready, done |-> TRUE]
           branch == AfterCheck(ready, args.dry_run)
       IN  IF branch = "skip"
           THEN /\ mon' = [mon EXCEPT ![p].idx = @ + 1, ![p].size1 = 0,
                                      ![p].check = check,
                                      ![p].skipped = Append(@, f),
                                      ![p].pc = IF size2 = -1
                                                THEN OnException("is_file_ready")
                                                ELSE "loop"]
                /\ hist' = [hist EXCEPT !.skipped = @ \cup {f}]
                /\ UNCHANGED job
           ELSE IF branch = "dry"
           THEN /\ mon' = [mon EXCEPT ![p].processed_count = @ + 1,
                                      ![p].stable = @ + 1,
                                      ![p].idx = @ + 1,
                                      ![p].size1 = 0,
                                      ![p].check = check,
                                      ![p].pc = "loop"]
                /\ UNCHANGED <<job, hist>>
           ELSE /\ mon' = [mon EXCEPT ![p].stable = @ + 1,
                                      ![p].attempted = Append(@, f),
                                      ![p].size1 = 0,
                                      ![p].check = check,
                                      ![p].pc = SubprocessRun]
                /\ job' = [job EXCEPT ![p] = [NoJob EXCEPT !.pc = "read", !.path = f]]
                /\ UNCHANGED hist
    /\ UNCHANGED <<fs, backendBusy, args, active, env, pureVars>>


-----------------------------------------------------------------------------
(* ollama-conversation.py run by process_prompt_file as a subprocess *)

\* the subprocess ends with the given code and subprocess.run returns
ScriptEnds(p, j, code, outcome) ==
    /\ job' = [job EXCEPT ![p] = [j EXCEPT !.pc = "exited"]]
    /\ mon' = [mon EXCEPT ![p].success = Succeeded(code, FALSE),
                          ![p].outcome = outcome,
                          ![p].pc = "mark"]

\* main: parse_prompt_file, parse_conversation_sections, the two checks on the
\* sections and build_ollama_messages; sys.exit(1) on each error
ScriptRead(p) ==
    /\ mon[p].pc = "run"
    /\ job[p].pc = "read"
    /\ IF ~fs[job[p].path].present
       THEN ScriptEnds(p, [job[p] EXCEPT !.error = "FileNotFound"], 1, "FileNotFound")
       ELSE \E r \in {Prepare(fs[job[p].path].content)} :
              LET j == [job[p] EXCEPT !.content = fs[job[p].path].content,
                                      !.error = r.error,
                                      !.parsed = r.parsed, !.sections = r.sections,
                                      !.timeout = TimeoutSeconds(r.config.timeout)]
              IN  IF r.exit # 0
                  THEN ScriptEnds(p, j, 1, r.error)
                  ELSE /\ job' = [job EXCEPT ![p] = [j EXCEPT !.pc = "validate"]]
                       /\ UNCHANGED mon
    /\ UNCHANGED <<fs, backendBusy, args, active, hist, env, pureVars>>

\* main: validate_model_name, the first request to the backend
ScriptValidate(p) ==
    /\ mon[p].pc = "run"
    /\ job[p].pc = "validate"
    /\ LET j == [job[p] EXCEPT !.requests = @ + 1]
       IN  \/ /\ job' = [job EXCEPT ![p] = [j EXCEPT !.pc = "generate"]]
              /\ UNCHANGED mon
           \/ ScriptEnds(p, j, 1, "BackendError")
    /\ UNCHANGED <<fs, backendBusy, args, active, hist, env, pureVars>>

\* main: generate_ollama_response and the cleaning of the generated text
ScriptGenerate(p) ==
    /\ mon[p].pc = "run"
    /\ job[p].pc = "generate"
    /\ \E backend_time \in BackendTimes :
         LET timeout == job[p].timeout
             call == CallTime(timeout, backend_time)
             j == [job[p] EXCEPT !.requests = @ + 1, !.call = call]
         IN  /\ call <= SubprocessTimeout(timeout)
             /\ IF timeout # 0 /\ backend_time > timeout
                THEN ScriptEnds(p, j, 1, "GenerationError")
                ELSE \/ /\ \E response_text \in Responses :
                             job' = [job EXCEPT ![p] =
                                       [j EXCEPT !.pc = "append",
                                                 !.generated_text =
                                                     CleanGenerated(Strip(response_text))]]
                        /\ UNCHANGED mon
                     \/ ScriptEnds(p, j, 1, "GenerationError")
    /\ UNCHANGED <<fs, backendBusy, args, active, hist, env, pureVars>>

\* main: append_response_to_file (opened in mode 'a': a missing file is created)
ScriptAppend(p) ==
    /\ mon[p].pc = "run"
    /\ job[p].pc = "append"
    /\ LET f == job[p].path
       IN  \/ /\ fs' = [fs EXCEPT ![f] =
                          File(append_response_to_file(@.content,
                                                       job[p].generated_text, TRUE))]
              /\ job' = [job EXCEPT ![p].pc = "exiting", ![p].appended = TRUE]
              /\ UNCHANGED mon
           \/ /\ ScriptEnds(p, job[p], 1, "AppendError")
              /\ UNCHANGED fs
    /\ UNCHANGED <<backendBusy, args, active, hist, env, pureVars>>

\* main returns: exit status 0
ScriptExit0(p) ==
    /\ mon[p].pc = "run"
    /\ job[p].pc = "exiting"
    /\ ScriptEnds(p, job[p], 0, "ok")
    /\ UNCHANGED <<fs, backendBusy, args, active, hist, env, pureVars>>

\* process_prompt_file: subprocess.TimeoutExpired (the child is killed where it
\* is: in the chat request when that is not over in time, elsewhere when the
\* child hangs), or any other exception of subprocess.run; both return False
ProcessTimeout(p) ==
    /\ mon[p].pc = "run"
    /\ IF job[p].pc = "generate"
       THEN \E backend_time \in BackendTimes :
              LET call == CallTime(job[p].timeout, backend_time)
              IN  /\ call > SubprocessTimeout(job[p].timeout)
                  /\ job' = [job EXCEPT ![p].pc = "killed",
                                        ![p].requests = @ + 1,
                                        ![p].call = call]
       ELSE job' = [job EXCEPT ![p].pc = "killed"]
    /\ mon' = [mon EXCEPT ![p].success = Succeeded(1, TRUE),
                          ![p].outcome = "Timeout",
                          ![p].pc = OnException("process_prompt_file")]
    /\ UNCHANGED <<fs, backendBusy, args, active, hist, env, pureVars>>

-----------------------------------------------------------------------------
(* mark_as_complete and the rest of the loop *)

\* what is known of the processing attempt when mark_as_complete is done
LastOf(p, target, renamed) ==
    [path |-> Current(p), content |-> job[p].content, error |-> job[p].error,
     parsed |-> job[p].parsed, sections |-> job[p].sections,
     outcome |-> mon[p].outcome, success |-> mon[p].success, target |-> target,
     renamed |-> renamed, appended |-> job[p].appended,
     timeout |-> job[p].timeout, call |-> job[p].call,
     requests |-> job[p].requests, read |-> TRUE]

\* process_directory: mark_as_complete (os.rename replaces an existing target
\* where the platform allows it, and raises OSError otherwise), the count
MarkAsComplete(p) ==
    /\ mon[p].pc = "mark"
    /\ LET f == Current(p)
           new_name == NewName(f, mon[p].success)
       IN  \/ /\ fs[f].present
              /\ new_name \in Names
              /\ fs' = Rename(fs, f, new_name)
              /\ hist' = [hist EXCEPT !.settled = @ \cup {new_name}]
              /\ mon' = [mon EXCEPT
                           ![p].processed_count = CountAfterMark(@, TRUE),
                           ![p].renames = Append(@, new_name),
                           ![p].marked = @ + 1,
                           ![p].last = LastOf(p, new_name, TRUE),
                           ![p].check = NoCheck,
                           ![p].success = FALSE,
                           ![p].outcome = "none",
                           ![p].idx = @ + 1,
                           ![p].pc = "loop"]
           \/ /\ mon' = [mon EXCEPT
                           ![p].processed_count = CountAfterMark(@, FALSE),
                           ![p].marked = @ + 1,
                           ![p].last = LastOf(p, new_name, FALSE),
                           ![p].check = NoCheck,
                           ![p].success = FALSE,
                           ![p].outcome = "none",
                           ![p].idx = @ + 1,
                           ![p].pc = OnException("mark_as_complete")]
              /\ hist' = [hist EXCEPT !.unrenamed = @ \cup {f}]
              /\ UNCHANGED fs
    /\ job' = [job EXCEPT ![p] = NoJob]
    /\ UNCHANGED <<backendBusy, args, active, env, pureVars>>

\* main: process_directory returned; time.sleep(interval) and the next sweep
\* in continuous mode, the end of the run otherwise
ReturnToMain(p) ==
    /\ mon[p].pc = "returned"
    /\ IF args.continuous
       THEN /\ mon[p].ticks < MaxTicks
            /\ mon' = [mon EXCEPT ![p].pc = "sweep"]
       ELSE mon' = [mon EXCEPT ![p].pc = "done", ![p].exit_status = 0]
    /\ UNCHANGED <<fs, backendBusy, args, active, job, hist, env, pureVars>>

\* main: KeyboardInterrupt anywhere inside the try block
Interrupt(p) ==
    /\ mon[p].pc \in {"sweep", "loop", "sleep", "run", "mark", "returned"}
    /\ mon' = [mon EXCEPT ![p] = [MonIdle EXCEPT !.pc = "stopped",
                                                  !.exit_status = 0,
                                                  !.busy = mon[p].busy,
                                                  !.busy_checks = mon[p].busy_checks,
                                                  !.ticks = mon[p].ticks]]
    /\ job' = [job EXCEPT ![p].pc = IF @ = "none" THEN @ ELSE "killed"]
    /\ UNCHANGED <<fs, backendBusy, args, active, hist, env, pureVars>>

\* the process of the monitor dies inside main (killed, the machine goes down)
\* together with the subprocess it waits for: nothing is renamed, nothing runs
Crash(p) ==
    /\ mon[p].pc \in {"sweep", "loop", "sleep", "run", "mark", "returned"}
    /\ mon' = [mon EXCEPT ![p] = [MonIdle EXCEPT !.pc = "crashed",
                                                  !.busy = mon[p].busy,
                                                  !.busy_checks = mon[p].busy_checks,
                                                  !.ticks = mon[p].ticks]]
    /\ job' = [job EXCEPT ![p].pc = IF @ = "none" THEN @ ELSE "killed"]
    /\ UNCHANGED <<fs, backendBusy, args, active, hist, env, pureVars>>

\* the invocation that was stopped and the one started after it
Stopped == 1
Successor == 2

\* the monitor is started again on the same directory with the same arguments
\* after an invocation that was interrupted or died
NextInvocation ==
    /\ active = {Stopped}
    /\ mon[Stopped].pc \in {"stopped", "crashed"}
    /\ active' = {Successor}
    /\ mon' = [mon EXCEPT ![Successor] = [MonIdle EXCEPT !.pc = "main"]]
    /\ job' = [job EXCEPT ![Successor] = NoJob]
    /\ UNCHANGED <<fs, backendBusy, args, hist, env, pureVars>>

-----------------------------------------------------------------------------
(* What happens outside the monitor.  An external step is taken right before *)
(* a step of a monitor that looks at what it changes: taken earlier it gives  *)
(* the same run, the steps in between do not see it.                          *)

\* the next step of monitor p reads or changes the file n
Touching(p, n) ==
    \/ /\ mon[p].pc \in {"loop", "sleep", "mark"}
       /\ mon[p].idx <= Len(mon[p].prompt_files)
       /\ Current(p) = n
    \/ /\ mon[p].pc = "run"
       /\ job[p].pc \in {"read", "append"}
       /\ job[p].path = n

\* the next step of monitor p lists the directory
Listing(p) == mon[p].pc = "sweep"

\* the next step of monitor p looks at the busy signal
AtBusyStep(p) == mon[p].pc \in {"main", "sweep"}

\* somebody is still writing a prompt file
WriterAppends(n) ==
    /\ env.steps < MaxEnv
    /\ \E p \in active : Touching(p, n)
    /\ n \in PromptNames
    /\ fs[n].present
    /\ fs' = [fs EXCEPT ![n].content = @ \o <<"x">>]
    /\ env' = [env EXCEPT !.steps = @ + 1]
    /\ UNCHANGED <<backendBusy, args, active, mon, job, hist, pureVars>>

\* a prompt file is removed
FileVanishes(n) ==
    /\ env.steps < MaxEnv
    /\ \E p \in active : Touching(p, n) \/ Listing(p)
    /\ n \in PromptNames
    /\ fs[n].present
    /\ fs' = [fs EXCEPT ![n] = Missing]
    /\ env' = [env EXCEPT !.steps = @ + 1]
    /\ UNCHANGED <<backendBusy, args, active, mon, job, hist, pureVars>>

\* the operator renames a terminal file back to its original extension
\* (between two sweeps)
OperatorRenamesBack(t) ==
    /\ env.steps < MaxEnv
    /\ \E p \in active : Listing(p)
    /\ t \in TerminalNames
    /\ fs[t].present
    /\ fs' = Rename(fs, t, SubSeq(t, 1, Len(t) - 1))
    /\ hist' = [hist EXCEPT !.settled = @ \ {t}]
    /\ env' = [env EXCEPT !.steps = @ + 1]
    /\ UNCHANGED <<backendBusy, args, active, mon, job, pureVars>>

\* the backend becomes busy or idle
BusyChanges ==
    /\ env.steps < MaxEnv
    /\ \E p \in active : AtBusyStep(p)
    /\ \E b \in {[backendBusy EXCEPT !.models_loaded = ~@],
                  [backendBusy EXCEPT !.cpu_high = ~@]} :
         backendBusy' = b
    /\ env' = [env EXCEPT !.steps = @ + 1]
    /\ UNCHANGED <<fs, args, active, mon, job, hist, pureVars>>

-----------------------------------------------------------------------------
(* Specifications *)

\* the conversation a completed round leaves behind
DocOld == DocHuman \o AppendedBlock(<<"y">>, TRUE)

\* a.prompt, b.prompt and a file that is no prompt; with old, the terminal
\* files an earlier round of the conversation a.prompt left
Directory(a, b, old) ==
    [n \in Names |->
        IF n = PromptName("a") THEN a
        ELSE IF n = PromptName("b") THEN b
        ELSE IF n \in {PromptName("a") \o <<"complete">>,
                       PromptName("a") \o <<"error">>} /\ old
        THEN File(DocOld)
        ELSE IF n = <<"a", "txt">> THEN File(<<"x">>)
        ELSE Missing]

Directories ==
    {Directory(a, b, FALSE) :
        a \in {Missing} \cup {File(d) : d \in DocsA},
        b \in {Missing} \cup {File(d) : d \in DocsB}}
    \cup {Directory(File(a), Missing, TRUE) : a \in {DocHuman, DocAiTail}}

MonInit(running) ==
    /\ fs \in Directories
    /\ backendBusy \in [models_loaded : BOOLEAN, cpu_high : BOOLEAN]
    /\ args \in [continuous : BOOLEAN, dry_run : BOOLEAN]
    /\ active = running
    /\ mon = [p \in Procs |->
                IF p \in running THEN [MonIdle EXCEPT !.pc = "main"] ELSE MonIdle]
    /\ job = [p \in Procs |-> NoJob]
    /\ hist = NoHist(fs)
    /\ env = [steps |-> 0]

Init ==
    /\ MonInit({1})
    /\ PureIdle

Next ==
    \/ \E p \in active : Main(p)
    \/ \E p \in active : ProcessDirectory(p)
    \/ \E p \in active : Loop(p)
    \/ \E p \in active : Sleep(p)
    \/ \E p \in active : ScriptRead(p)
    \/ \E p \in active : ScriptValidate(p)
    \/ \E p \in active : ScriptGenerate(p)
    \/ \E p \in active : ScriptAppend(p)
    \/ \E p \in active : ScriptExit0(p)
    \/ \E p \in active : ProcessTimeout(p)
    \/ \E p \in active : MarkAsComplete(p)
    \/ \E p \in active : ReturnToMain(p)
    \/ \E p \in active : Interrupt(p)
    \/ \E n \in PromptNames : WriterAppends(n)
    \/ \E n \in PromptNames : FileVanishes(n)
    \/ \E t \in TerminalNames : OperatorRenamesBack(t)
    \/ BusyChanges

\* one monitor invocation on one directory
Spec == Init /\ [][Next]_vars

\* two invocations, each a single pass, started on the same directory with
\* one prompt file and no lock around them
InitTwo ==
    /\ fs = Directory(File(DocHuman), Missing, FALSE)
    /\ backendBusy = Idle
    /\ args = [continuous |-> FALSE, dry_run |-> FALSE]
    /\ active = Procs
    /\ mon = [p \in Procs |-> [MonIdle EXCEPT !.pc = "main"]]
    /\ job = [p \in Procs |-> NoJob]
    /\ hist = NoHist(fs)
    /\ env = [steps |-> 0]
    /\ PureIdle

SpecTwo == InitTwo /\ [][Next]_vars

\* a step of the monitor p or of the script it waits for
MonitorStep(p) ==
    \/ Main(p)
    \/ ProcessDirectory(p)
    \/ Loop(p)
    \/ Sleep(p)
    \/ ScriptRead(p)
    \/ ScriptValidate(p)
    \/ ScriptGenerate(p)
    \/ ScriptAppend(p)
    \/ ScriptExit0(p)
    \/ ProcessTimeout(p)
    \/ MarkAsComplete(p)
    \/ ReturnToMain(p)

\* a monitor in continuous mode that nobody interrupts, on a directory where
\* a writer may still be at work
InitLive ==
    /\ fs \in {Directory(File(DocHuman), Missing, FALSE),
               Directory(File(DocMismatch), Missing, FALSE),
               Directory(File(DocMismatch), File(DocSecondRound), FALSE)}
    /\ backendBusy \in {Idle, [Idle EXCEPT !.models_loaded = TRUE]}
    /\ args = [continuous |-> TRUE, dry_run |-> FALSE]
    /\ active = {1}
    /\ mon = [p \in Procs |-> IF p = 1 THEN [MonIdle EXCEPT !.pc = "main"] ELSE MonIdle]
    /\ job = [p \in Procs |-> NoJob]
    /\ hist = NoHist(fs)
    /\ env = [steps |-> 0]
    /\ PureIdle

NextLive ==
    \/ \E p \in active : MonitorStep(p)
    \/ \E n \in PromptNames : WriterAppends(n)

\* the steps of the monitor and of the script other than the reading of the
\* document and the generation call
Proceeds(p) ==
    \/ Main(p)
    \/ ProcessDirectory(p)
    \/ Loop(p)
    \/ Sleep(p)
    \/ ScriptValidate(p)
    \/ ScriptAppend(p)
    \/ ScriptExit0(p)
    \/ ProcessTimeout(p)
    \/ MarkAsComplete(p)
    \/ ReturnToMain(p)

\* the process runs: main, the for loop, time.sleep and the rename take their
\* step when it is their turn; subprocess.run returns or raises
\* TimeoutExpired (while the script reads the document the timeout is what
\* keeps the first condition enabled); the generation call returns or fails
SpecLive ==
    /\ InitLive
    /\ [][NextLive]_vars
    /\ WF_vars(\E p \in active : Proceeds(p))
    /\ WF_vars(\E p \in active : ScriptGenerate(p))

\* an invocation that is interrupted or dies at any point, and the invocation
\* started after it; nothing else touches the directory, the backend is idle
InitCrash ==
    /\ fs \in Directories
    /\ backendBusy = Idle
    /\ args \in [continuous : BOOLEAN, dry_run : BOOLEAN]
    /\ active = {Stopped}
    /\ mon = [p \in Procs |->
                IF p = Stopped THEN [MonIdle EXCEPT !.pc = "main"] ELSE MonIdle]
    /\ job = [p \in Procs |-> NoJob]
    /\ hist = NoHist(fs)
    /\ env = [steps |-> 0]
    /\ PureIdle

NextCrash ==
    \/ \E p \in active : Main(p)
    \/ \E p \in active : ProcessDirectory(p)
    \/ \E p \in active : Loop(p)
    \/ \E p \in active : Sleep(p)
    \/ \E p \in active : ScriptRead(p)
    \/ \E p \in active : ScriptValidate(p)
    \/ \E p \in active : ScriptGenerate(p)
    \/ \E p \in active : ScriptAppend(p)
    \/ \E p \in active : ScriptExit0(p)
    \/ \E p \in active : ProcessTimeout(p)
    \/ \E p \in active : MarkAsComplete(p)
    \/ \E p \in active : ReturnToMain(p)
    \/ \E p \in active \cap {Stopped} : Interrupt(p)
    \/ \E p \in active \cap {Stopped} : Crash(p)
    \/ NextInvocation

SpecCrash == InitCrash /\ [][NextCrash]_vars

\* the tokens of a response: a word, a blank, a line end, '# Generated:'
ResponseTokens == {"y", "sp", "nl", "G"}

\* the responses of at most n tokens
RECURSIVE ResponsesOf(_)
ResponsesOf(n) ==
    IF n = 0 THEN {<<>>}
    ELSE LET S == ResponsesOf(n - 1)
         IN  S \cup {<<t>> \o r : t \in ResponseTokens, r \in S}

\* the responses of the round trip: the short ones and one with a marker
RoundResponses == ResponsesOf(MaxRoundResponse) \cup {<<"y", "D", "AI", "D">>}

\* a round of a conversation: a document the script accepts, a response
\* appended to it, the next question added, the file parsed again
InitRound ==
    /\ raw \in {d \in {Sep \o t : t \in TextsOf(MaxRoundPieces)} : Prepare(d).exit = 0}
    /\ \E r \in RoundResponses : out = [OutInit EXCEPT !.generated_text = r]
    /\ ppc = "round"
    /\ fs = [n \in Names |-> Missing]
    /\ backendBusy = Idle
    /\ args = [continuous |-> FALSE, dry_run |-> FALSE]
    /\ active = {}
    /\ mon = [p \in Procs |-> MonIdle]
    /\ job = [p \in Procs |-> NoJob]
    /\ hist = NoHist(fs)
    /\ env = [steps |-> 0]

NextRound ==
    \/ P_round_append /\ UNCHANGED monVars
    \/ P_round_human /\ UNCHANGED monVars
    \/ P_round_parse /\ UNCHANGED monVars

SpecRound == InitRound /\ [][NextRound]_vars

InitClean ==
    /\ raw \in ResponsesOf(MaxResponse)
    /\ out = [OutInit EXCEPT !.file.conversation_part = HumanTurn]
    /\ ppc = "response"
    /\ fs = [n \in Names |-> Missing]
    /\ backendBusy = Idle
    /\ args = [continuous |-> FALSE, dry_run |-> FALSE]
    /\ active = {}
    /\ mon = [p \in Procs |-> MonIdle]
    /\ job = [p \in Procs |-> NoJob]
    /\ hist = NoHist(fs)
    /\ env = [steps |-> 0]

NextClean ==
    \/ P_clean_generated_text /\ UNCHANGED monVars
    \/ P_append_generated_text /\ UNCHANGED monVars

\* the end of main, from the response of the backend to the append, on every
\* short response
SpecClean == InitClean /\ [][NextClean]_vars

\* lines of a configuration block: max_tokens with a number, with none, with
\* a word, with none and an inline comment, commented out; other options
ConfigLinesGiven ==
    {<<"mt", ":", "num", "nl">>, <<"mt", ":", "none", "nl">>,
     <<"mt", ":", "x", "nl">>, <<"mt", ":", "none", "sp", "#", "x", "nl">>,
     <<"#", "mt", ":", "none", "nl">>, <<"to", ":", "none", "nl">>,
     <<"temp", ":", "flt", "nl">>, <<"key", ":", "x", "nl">>}

\* the configuration blocks of at most n of these lines
RECURSIVE ConfigBlocks(_)
ConfigBlocks(n) ==
    IF n = 0 THEN {<<>>}
    ELSE LET S == ConfigBlocks(n - 1)
         IN  S \cup {l \o b : l \in ConfigLinesGiven, b \in S}

\* the script run on a document with any of these configuration blocks and
\* one human turn
InitConfig ==
    /\ raw \in {b \o Sep \o HumanTurn : b \in ConfigBlocks(MaxConfigLines)}
    /\ out = OutInit
    /\ ppc = "start"
    /\ fs = [n \in Names |-> Missing]
    /\ backendBusy = Idle
    /\ args = [continuous |-> FALSE, dry_run |-> FALSE]
    /\ active = {}
    /\ mon = [p \in Procs |-> MonIdle]
    /\ job = [p \in Procs |-> NoJob]
    /\ hist = NoHist(fs)
    /\ env = [steps |-> 0]

NextConfig ==
    /\ \/ P_parse_prompt_file
       \/ P_parse_conversation_sections
       \/ P_build_ollama_messages
       \/ P_generate_ollama_response
    /\ UNCHANGED monVars

SpecConfig == InitConfig /\ [][NextConfig]_vars

InitParse ==
    /\ raw \in TextsOf(MaxPieces)
    /\ out = OutInit
    /\ ppc = "start"
    /\ fs = [n \in Names |-> Missing]
    /\ backendBusy = Idle
    /\ args = [continuous |-> FALSE, dry_run |-> FALSE]
    /\ active = {}
    /\ mon = [p \in Procs |-> MonIdle]
    /\ job = [p \in Procs |-> NoJob]
    /\ hist = NoHist(fs)
    /\ env = [steps |-> 0]

NextParse ==
    \/ P_parse_prompt_file /\ UNCHANGED monVars
    \/ P_parse_conversation_sections /\ UNCHANGED monVars
    \/ P_build_ollama_messages /\ UNCHANGED monVars
    \/ P_append_response_to_file /\ UNCHANGED monVars

\* the parsing pipeline of the conversation script on every small text
SpecParse == InitParse /\ [][NextParse]_vars

\* the contents of literal turns: empty, a word, metadata lines (one of them
\* indented), '#' characters, text that is not stripped
TurnContents ==
    {<<>>, <<"x">>, <<"G", "ts">>, <<"G", "ts", "nl", "y", "sp">>,
     <<"x", "nl", "sp", "G", "ts">>, <<"#", "x", "nl", "G", "nl">>}

Turns == [type : {"human", "ai"}, content : TurnContents]

\* the sequences of at most n turns
RECURSIVE TurnSeqs(_)
TurnSeqs(n) ==
    IF n = 0 THEN {<<>>}
    ELSE LET S == TurnSeqs(n - 1)
         IN  S \cup {<<t>> \o q : t \in Turns, q \in S}

InitMessages ==
    /\ raw = <<>>
    /\ \E q \in TurnSeqs(MaxTurns) :
          out = [OutInit EXCEPT !.conv = [error |-> "none", sections |-> q]]
    /\ ppc = "sections"
    /\ fs = [n \in Names |-> Missing]
    /\ backendBusy = Idle
    /\ args = [continuous |-> FALSE, dry_run |-> FALSE]
    /\ active = {}
    /\ mon = [p \in Procs |-> MonIdle]
    /\ job = [p \in Procs |-> NoJob]
    /\ hist = NoHist(fs)
    /\ env = [steps |-> 0]

NextMessages == P_build_ollama_messages /\ UNCHANGED monVars

\* build_ollama_messages on every short literal turn sequence
SpecMessages == InitMessages /\ [][NextMessages]_vars


-----------------------------------------------------------------------------
(* Properties *)

\* the document as the two parsers read it
Parsed(content) ==
    LET file == parse_prompt_file(content)
        conv == parse_conversation_sections(file.conversation_text)
    IN  [ok |-> file.error = "none" /\ conv.error = "none",
         turns |-> conv.sections]

\* the document parses and its last turn is Human
TailIsHuman(content) ==
    LET d == Parsed(content)
    IN  d.ok /\ d.turns # <<>> /\ d.turns[Len(d.turns)].type = "human"

\* the files of a directory whose name ends in .prompt
PromptFilesIn(dir) == {n \in Names : dir[n].present /\ n[Len(n)] = "prompt"}

\* the texts append_response_to_file can be given
GeneratedTexts == {CleanGenerated(Strip(r)) : r \in Responses}

\* the first sweep of process p has returned
FirstSweepReturned(p) ==
    /\ mon[p].ticks = 1
    /\ mon[p].pc \in {"returned", "done"}

\* the directory held exactly the one prompt file f, a document ending in a
\* Human turn; nothing external touched it; the backend was not busy; no dry run
OneGoodDocument(p, f) ==
    /\ env.steps = 0
    /\ mon[p].busy = "idle"
    /\ ~args.dry_run
    /\ PromptFilesIn(hist.fs0) = {f}
    /\ TailIsHuman(hist.fs0[f].content)

\* C1: with the backend not busy, no dry run and one stable prompt document
\* ending in a Human turn, the sweep makes one processing attempt on it, which
\* can only fail in a request to the backend, in the append or by the timeout;
\* when the attempt succeeds (generation and append done, exit status 0) and
\* the rename is carried out, the directory holds <original>.complete with the
\* original content followed by exactly one appended block, no file under the
\* original name, and the sweep returns 1.
C1_EndToEndSuccess ==
    \A p \in active : \A f \in PromptNames :
        (FirstSweepReturned(p) /\ OneGoodDocument(p, f)) =>
            /\ mon[p].attempted = <<f>>
            /\ mon[p].last.read
            /\ mon[p].last.path = f
            /\ mon[p].last.outcome \in
                   {"ok", "BackendError", "GenerationError", "AppendError", "Timeout"}
            /\ (mon[p].last.outcome = "ok" /\ mon[p].last.renamed) =>
                   /\ ~fs[f].present
                   /\ fs[f \o <<"complete">>].present
                   /\ \E g \in GeneratedTexts :
                          fs[f \o <<"complete">>].content =
                              hist.fs0[f].content \o AppendedBlock(g, TRUE)
                   /\ Len(ReFindAll(fs[f \o <<"complete">>].content, 1)) =
                          Len(ReFindAll(hist.fs0[f].content, 1)) + 2
                   /\ mon[p].renames = <<f \o <<"complete">> >>
                   /\ mon[p].count = 1

C1_Witness ==
    \E p \in active : \E f \in PromptNames :
        /\ OneGoodDocument(p, f)
        /\ FirstSweepReturned(p)
        /\ mon[p].last.outcome = "ok"
        /\ mon[p].last.renamed
        /\ mon[p].count = 1
        /\ fs[f \o <<"complete">>].present

\* the script got a turn sequence from the document and its last turn is Human
HumanTail(j) ==
    /\ j.parsed
    /\ j.sections # <<>>
    /\ j.sections[Len(j.sections)].type = "human"

\* the script got a turn sequence that is empty or ends in an Ai turn
NoHumanTail(j) ==
    /\ j.parsed
    /\ \/ j.sections = <<>>
       \/ j.sections[Len(j.sections)].type = "ai"

\* C2: a request to the backend is made for a document only when it parsed and
\* its last turn is Human; for a document that parses to no turn or to a last
\* turn Ai the attempt makes no request, appends nothing, fails, and
\* mark_as_complete renames the file, content unchanged, to <original>.error.
C2_NoGenerationUnlessHumanTail ==
    \A p \in active :
        /\ (job[p].requests > 0 \/ job[p].appended
            \/ job[p].pc \in {"validate", "generate", "append", "exiting"})
               => HumanTail(job[p])
        /\ (mon[p].last.requests > 0 \/ mon[p].last.appended)
               => HumanTail(mon[p].last)
        /\ job[p].parsed => job[p].sections = Parsed(job[p].content).turns
        /\ (job[p].pc = "exited" /\ NoHumanTail(job[p])) =>
               /\ job[p].requests = 0
               /\ ~job[p].appended
               /\ ~mon[p].success
        /\ (mon[p].last.read /\ NoHumanTail(mon[p].last)) =>
               /\ mon[p].last.requests = 0
               /\ ~mon[p].last.appended
               /\ mon[p].last.target = mon[p].last.path \o <<"error">>
               /\ (mon[p].last.renamed /\ env.steps = 0) =>
                      /\ fs[mon[p].last.target] = File(mon[p].last.content)
                      /\ ~fs[mon[p].last.path].present

C2_Witness ==
    \E p \in active :
        /\ mon[p].last.read
        /\ mon[p].last.renamed
        /\ mon[p].last.outcome = "LastNotHuman"
        /\ NoHumanTail(mon[p].last)
        /\ mon[p].last.requests = 0
        /\ fs[mon[p].last.path \o <<"error">>].present

\* the names this sweep renamed the file prompt_file to
RenamedTo(p, prompt_file) ==
    {mon[p].renames[i] : i \in {k \in DOMAIN mon[p].renames :
        SubSeq(mon[p].renames[k], 1, Len(prompt_file)) = prompt_file}}

\* C3: in a sweep without dry run, when mark_as_complete has been called for a
\* file, the name it renames to is <original>.complete exactly when the
\* processing attempt succeeded (and then the append was made before), and
\* <original>.error after every failure; a rename that is carried out puts the
\* file under that one name, never under both.
C3_TerminalNameFollowsOutcome ==
    \A p \in active :
        mon[p].last.read =>
            LET l == mon[p].last
            IN  /\ ~args.dry_run
                /\ l.outcome \in {"ok", "FormatError", "ConfigError", "NoSections",
                                  "LastNotHuman", "FileNotFound", "BackendError",
                                  "GenerationError", "AppendError", "Timeout"}
                /\ (l.target = l.path \o <<"complete">>) <=> (l.outcome = "ok")
                /\ (l.target = l.path \o <<"error">>) <=> (l.outcome # "ok")
                /\ (l.outcome = "ok") => l.appended
                /\ l.renamed => RenamedTo(p, l.path) = {l.target}
                /\ ~l.renamed => RenamedTo(p, l.path) = {}
                /\ (l.renamed /\ env.steps = 0) =>
                       /\ fs[l.target].present
                       /\ ~fs[l.path].present

C3_Witness ==
    \E p \in active :
        /\ mon[p].last.read
        /\ mon[p].last.renamed
        /\ mon[p].last.outcome = "AppendError"
        /\ mon[p].last.target = mon[p].last.path \o <<"error">>
        /\ fs[mon[p].last.target].present

\* C4: every path find_prompt_files returned ends in .prompt, none in .complete
\* or .error, whatever else the directory holds.
C4_DiscoveryOnlyPromptFiles ==
    \A p \in active : \A i \in DOMAIN mon[p].prompt_files :
        LET n == mon[p].prompt_files[i]
        IN  /\ n[Len(n)] = "prompt"
            /\ n[Len(n)] \notin {"complete", "error"}

C4_Witness ==
    \E p \in active :
        /\ mon[p].pc = "loop"
        /\ mon[p].idx = 1
        /\ Len(mon[p].prompt_files) = 1
        /\ fs[PromptName("a") \o <<"complete">>].present
        /\ fs[PromptName("a") \o <<"error">>].present

\* C5: in one sweep no path is given to process_prompt_file twice, and a name
\* the monitor renamed a file to is never discovered, processed or renamed by
\* it again (until the operator renames the file back).
C5_NoAutomaticRetry ==
    \A p \in active :
        /\ \A i, j \in DOMAIN mon[p].attempted :
               i # j => mon[p].attempted[i] # mon[p].attempted[j]
        /\ \A t \in hist.settled :
               /\ \A i \in DOMAIN mon[p].prompt_files : mon[p].prompt_files[i] # t
               /\ \A i \in DOMAIN mon[p].attempted : mon[p].attempted[i] # t
               /\ job[p].path # t
               /\ mon[p].last.path # t

C5_Witness ==
    \E p \in active :
        /\ mon[p].ticks = 2
        /\ mon[p].pc = "mark"
        /\ hist.settled # {}
        /\ \E t \in hist.settled : fs[t].present

\* C6: in single-pass mode, when is_busy reports true the run ends with exit
\* status 2 having discovered nothing, processed nothing and renamed nothing;
\* a run that finds no candidate ends normally with count 0 and status 0.
C6_BusyGateSinglePass ==
    \A p \in active :
        ~args.continuous =>
            /\ (mon[p].busy = "busy") =>
                   /\ mon[p].pc = "exit"
                   /\ mon[p].exit_status = 2
                   /\ mon[p].ticks = 0
                   /\ mon[p].prompt_files = <<>>
                   /\ mon[p].attempted = <<>>
                   /\ mon[p].renames = <<>>
                   /\ job[p] = NoJob
                   /\ hist.settled = {}
                   /\ fs = hist.fs0
            /\ (mon[p].pc = "done") =>
                   /\ mon[p].busy = "idle"
                   /\ mon[p].exit_status = 0
                   /\ mon[p].prompt_files = <<>> => mon[p].count = 0
            /\ (mon[p].pc = "exit") => mon[p].busy = "busy"

C6_Witness ==
    \E p \in active :
        /\ ~args.continuous
        /\ mon[p].busy = "busy"
        /\ mon[p].pc = "exit"
        /\ mon[p].exit_status = 2
        /\ PromptFilesIn(fs) # {}

\* C7: in continuous mode the monitor never exits because the backend is
\* busy, and no sweep starts while the busy signal is true (a sweep due while
\* busy is skipped and the signal is checked again on the next tick).
C7_BusyGateContinuous ==
    \A p \in active :
        args.continuous => (mon[p].pc # "exit" /\ ~mon[p].swept_busy)

\* C8 as claimed: the count a sweep returns is the number of files the sweep
\* renamed to a terminal name, dry run included.
C8_AsClaimed ==
    \A p \in active :
        mon[p].pc = "returned" => mon[p].count = Len(mon[p].renames)

\* C8 amended: without dry run the count a sweep returns is the number of
\* files the sweep renamed to a terminal name (a failed rename is not
\* counted); with dry run it is the number of discovered files that passed the
\* stability check, none of which is processed or renamed.
C8_SweepCount ==
    \A p \in active :
        mon[p].pc = "returned" =>
            /\ ~args.dry_run => mon[p].count = Len(mon[p].renames)
            /\ args.dry_run =>
                   /\ mon[p].count = mon[p].stable
                   /\ mon[p].renames = <<>>
                   /\ mon[p].attempted = <<>>
            /\ \A i \in DOMAIN mon[p].renames :
                   mon[p].renames[i] \in TerminalNames

C8_Witness ==
    \E p \in active :
        /\ mon[p].pc = "returned"
        /\ ~args.dry_run
        /\ Len(mon[p].attempted) = 2
        /\ mon[p].count = 1

\* where the matches of ---(HUMAN|AI)--- start, read left to right
RECURSIVE MarkerStarts(_, _)
MarkerStarts(s, i) ==
    IF i > Len(s) THEN {}
    ELSE IF IsMarkerAt(s, i) THEN {i} \cup MarkerStarts(s, i + 3)
    ELSE MarkerStarts(s, i + 1)

\* position k of s is inside a marker
InMarker(s, k) == \E m \in MarkerStarts(s, 1) : m <= k /\ k <= m + 2

\* position k of s is content: outside the markers and no whitespace
IsContent(s, k) == ~InMarker(s, k) /\ ~IsSpace(s[k])

\* the content segments of s: one for each first content position of a
\* stretch between markers
ContentSegments(s) ==
    {k \in 1..Len(s) :
        /\ IsContent(s, k)
        /\ \A j \in 1..(k - 1) :
               IsContent(s, j) => \E m \in j..k : InMarker(s, m)}

\* C9: parse_conversation_sections fails with the mismatch error exactly when
\* the number of markers differs from the number of content segments (the
\* non-blank stretches of text the markers separate).
C9_MismatchIffCountsDiffer ==
    ppc \in {"sections", "messages"} \/ (ppc = "exit1" /\ out.file.error = "none") =>
        LET text == out.file.conversation_text
        IN  (out.conv.error = "FormatError") <=>
                (Cardinality(MarkerStarts(text, 1)) # Cardinality(ContentSegments(text)))

C9_Witness ==
    /\ ppc = "exit1"
    /\ out.file.error = "none"
    /\ out.conv.error = "FormatError"
    /\ Cardinality(MarkerStarts(out.file.conversation_text, 1)) = 2
    /\ Cardinality(ContentSegments(out.file.conversation_text)) = 1

\* C10: parse_prompt_file fails with the format error when the text holds no
\* '---'; otherwise it cuts the text at the first '---': the configuration
\* block is what precedes it and holds no '---', the conversation block is
\* everything after it (returned stripped).
C10_SplitAtFirstSeparator ==
    ppc \notin {"start", "appended"} =>
        IF \A i \in 1..Len(raw) : raw[i] # "D"
        THEN out.file.error = "FormatError"
        ELSE /\ out.file.error # "FormatError"
             /\ raw = out.file.config_part \o <<"D">> \o out.file.conversation_part
             /\ \A i \in 1..Len(out.file.config_part) : out.file.config_part[i] # "D"
             /\ out.file.conversation_text = Strip(out.file.conversation_part)

C10_Witness ==
    /\ ppc \notin {"start", "appended"}
    /\ out.file.error = "none"
    /\ out.file.config_part # <<>>
    /\ \E i \in 1..Len(out.file.conversation_part) :
           out.file.conversation_part[i] = "D"
    /\ MarkerStarts(out.file.conversation_part, 1) # {}

\* the line starts with '# Generated:'
StartsMeta(line) == line # <<>> /\ line[1] = "G"

\* the first text of the line that is no whitespace is '# Generated:'
StartsMetaIndented(line) ==
    \E i \in 1..Len(line) :
        line[i] = "G" /\ \A j \in 1..(i - 1) : IsSpace(line[j])

\* the elements of s at the indices in K, in order
RECURSIVE KeepAt(_, _, _)
KeepAt(s, K, i) ==
    IF i > Len(s) THEN <<>>
    ELSE (IF i \in K THEN <<s[i]>> ELSE <<>>) \o KeepAt(s, K, i + 1)

\* text without its metadata lines, trimmed
CleanedBy(text, Meta(_)) ==
    LET lines == SplitOn(text, {"nl"})
    IN  Strip(JoinLines(KeepAt(lines, {i \in 1..Len(lines) : ~Meta(lines[i])}, 1)))

\* the message of each turn
Projection(sections, Meta(_)) ==
    [k \in 1..Len(sections) |->
        IF sections[k].type = "human"
        THEN [role |-> "user", content |-> sections[k].content]
        ELSE [role |-> "assistant", content |-> CleanedBy(sections[k].content, Meta)]]

\* the turns that give a message: all but the Ai turns that clean to nothing
KeptTurns(sections, Meta(_)) ==
    {k \in 1..Len(sections) :
        sections[k].type = "human" \/ Projection(sections, Meta)[k].content # <<>>}

\* messages is the projection of the kept turns, in turn order
IsProjection(messages, sections, Meta(_)) ==
    LET K == KeptTurns(sections, Meta)
    IN  /\ Len(messages) = Cardinality(K)
        /\ \A k \in K :
               messages[Cardinality({j \in K : j <= k})] = Projection(sections, Meta)[k]

\* C11 as claimed: the messages are the turns in order, Human as user, Ai as
\* assistant with every line starting with '# Generated:' removed and the
\* result trimmed, without exactly the Ai turns that clean to nothing.
C11_AsClaimed ==
    ppc = "messages" => IsProjection(out.messages, out.conv.sections, StartsMeta)

\* C11 amended: the same, the lines removed from an Ai turn being those whose
\* first text that is no whitespace is '# Generated:' (indented ones too).
C11_MessagesAreProjection ==
    ppc = "messages" =>
        IsProjection(out.messages, out.conv.sections, StartsMetaIndented)

C11_Witness ==
    /\ ppc = "messages"
    /\ Len(out.conv.sections) = 2
    /\ out.conv.sections[1] = [type |-> "ai", content |-> <<"G", "ts">>]
    /\ out.conv.sections[2] = [type |-> "ai", content |-> <<"x", "nl", "sp", "G", "ts">>]
    /\ out.messages = <<[role |-> "assistant", content |-> <<"x">>]>>

\* C12: no message made from the turns of a document that parses has empty
\* content, whether it comes from a Human or from an Ai turn.
C12_NoEmptyMessage ==
    ppc = "messages" =>
        \A i \in 1..Len(out.messages) :
            /\ out.messages[i].content # <<>>
            /\ \E k \in 1..Len(out.messages[i].content) :
                   ~IsSpace(out.messages[i].content[k])

C12_Witness ==
    /\ ppc = "messages"
    /\ out.file.error = "none"
    /\ out.messages # <<>>
    /\ Len(out.messages) < Len(out.conv.sections)
    /\ \E k \in 1..Len(out.conv.sections) :
           /\ out.conv.sections[k].type = "ai"
           /\ out.conv.sections[k].content # <<>>

\* the contents of the elements of s that have field f equal to v, in order
ContentsWhere(s, f, v) ==
    LET picked == KeepAt(s, {i \in 1..Len(s) : s[i][f] = v}, 1)
    IN  [i \in 1..Len(picked) |-> picked[i].content]

\* C13: the contents of the user messages are the contents of the Human turns,
\* one for one and unchanged, '#' characters and '# Generated:' lines included;
\* the cleaning touches the Ai turns only.
C13_HumanTurnsUnchanged ==
    ppc = "messages" =>
        ContentsWhere(out.messages, "role", "user")
            = ContentsWhere(out.conv.sections, "type", "human")

C13_Witness ==
    /\ ppc = "messages"
    /\ Len(out.conv.sections) = 2
    /\ out.conv.sections[1] = [type |-> "human", content |-> <<"#", "x", "nl", "G", "nl">>]
    /\ out.conv.sections[2] = [type |-> "ai", content |-> <<"#", "x", "nl", "G", "nl">>]
    /\ out.messages = <<[role |-> "user", content |-> <<"#", "x", "nl", "G", "nl">>],
                        [role |-> "assistant", content |-> <<"#", "x">>]>>

\* a is a prefix of b
IsPrefix(a, b) == Len(a) <= Len(b) /\ SubSeq(b, 1, Len(a)) = a

\* the markers and the non-blank segments of the conversation block of a text
Markers(content) == ReFindAll(parse_prompt_file(content).conversation_text, 1)
Segments(content) ==
    StripNonEmpty(ReSplit(parse_prompt_file(content).conversation_text, 1, <<>>))

\* C14: the text before append_response_to_file is a prefix of the text after
\* it, which is longer; the turns of a text that parsed are, kind and content,
\* the first turns read from the text after it.
C14_AppendOnly ==
    ppc = "appended" =>
        /\ IsPrefix(raw, out.appended)
        /\ Len(out.appended) > Len(raw)
        /\ Parsed(raw).ok =>
               LET turns == Parsed(raw).turns
                   markers == Markers(out.appended)
                   segments == Segments(out.appended)
               IN  /\ Len(turns) <= Len(markers)
                   /\ Len(turns) <= Len(segments)
                   /\ \A k \in 1..Len(turns) :
                          /\ turns[k].type = Lower(markers[k])
                          /\ turns[k].content = segments[k]

C14_Witness ==
    /\ ppc = "appended"
    /\ Parsed(raw).ok
    /\ Len(Parsed(raw).turns) = 2
    /\ Parsed(raw).turns[2].type = "human"
    /\ Len(Markers(out.appended)) = 4
    /\ Len(Segments(out.appended)) = 3

\* C15: is_file_ready returns true exactly when both sizes were obtained and
\* are equal; a size that changed between the samples gives false; a file
\* missing at either sample gives false and the sweep goes on; a file nobody
\* touched between the samples gives true.
C15_StabilityCheck ==
    \A p \in active :
        LET c == mon[p].check
        IN  c.done =>
              /\ c.ready <=> (c.size1 >= 0 /\ c.size2 >= 0 /\ c.size1 = c.size2)
              /\ (c.size1 >= 0 /\ c.size2 >= 0 /\ c.size1 # c.size2) => ~c.ready
              /\ (c.size1 = -1 \/ c.size2 = -1) =>
                     /\ ~c.ready
                     /\ mon[p].pc \in {"loop", "returned", "sweep", "done"}
              /\ env.steps = 0 => c.ready
              /\ ~c.ready => c.path \notin {mon[p].attempted[i] :
                                                i \in DOMAIN mon[p].attempted}

C15_Witness ==
    \E p \in active :
        /\ mon[p].check.done
        /\ ~mon[p].check.ready
        /\ mon[p].check.size1 >= 0
        /\ mon[p].check.size2 > mon[p].check.size1
        /\ mon[p].pc = "loop"

\* a prompt file vanished between the two samples
C15_Vanished ==
    \E p \in active :
        /\ mon[p].check.done
        /\ mon[p].check.size1 >= 0
        /\ mon[p].check.size2 = -1


\* the files a monitor has in its list, the files it gave to the script
Listed(m) == {m.prompt_files[i] : i \in DOMAIN m.prompt_files}

Attempted(m) == {m.attempted[i] : i \in DOMAIN m.attempted}

\* C16: a discovered file that fails the stability check is skipped for this
\* sweep: the step that skips it starts no processing attempt, renames
\* nothing, changes no file and counts nothing, and goes on with the next
\* file; every failed check ends in a skip; and the next discovery lists the
\* file again whenever it is still there, nothing of the skip being consulted.
C16_UnstableFileSkipped ==
    [][\A p \in active :
          /\ Len(mon'[p].skipped) > Len(mon[p].skipped) =>
                 /\ mon'[p].skipped = Append(mon[p].skipped, Current(p))
                 /\ fs' = fs
                 /\ job' = job
                 /\ job[p].pc = "none"
                 /\ mon'[p].processed_count = mon[p].processed_count
                 /\ mon'[p].attempted = mon[p].attempted
                 /\ mon'[p].renames = mon[p].renames
                 /\ hist'.settled = hist.settled
                 /\ Current(p) \notin Attempted(mon[p])
                 /\ mon'[p].idx = mon[p].idx + 1
                 /\ mon'[p].pc = "loop"
          /\ (mon'[p].check.done /\ ~mon'[p].check.ready) =>
                 /\ Len(mon'[p].skipped) > 0
                 /\ mon'[p].skipped[Len(mon'[p].skipped)] = mon'[p].check.path
                 /\ mon'[p].check.path \notin Attempted(mon'[p])
          /\ mon'[p].ticks > mon[p].ticks =>
                 /\ \A f \in hist.skipped : fs[f].present => f \in Listed(mon'[p])
                 /\ Listed(mon'[p]) = find_prompt_files(fs)
      ]_vars

\* a file skipped in the first sweep is given to the script in the second
C16_Witness ==
    \E p \in active :
        /\ mon[p].ticks = 2
        /\ mon[p].pc = "run"
        /\ Current(p) \in hist.skipped
        /\ fs[Current(p)].present
        /\ fs[Current(p)].content # hist.fs0[Current(p)].content

\* C17: when the rename of mark_as_complete fails, no exception leaves it:
\* the file system is as before (the file, if it is there, under its original
\* name with its content), no terminal name is recorded, the sweep count is
\* not incremented, the sweep goes on with the next file, and the next
\* discovery lists the file again whenever it is still there.
C17_RenameFailure ==
    [][\A p \in active :
          /\ (mon[p].pc = "mark" /\ mon'[p].last.read /\ ~mon'[p].last.renamed) =>
                 /\ fs' = fs
                 /\ hist'.settled = hist.settled
                 /\ mon'[p].renames = mon[p].renames
                 /\ mon'[p].processed_count = mon[p].processed_count
                 /\ mon'[p].last.path = Current(p)
                 /\ mon'[p].idx = mon[p].idx + 1
                 /\ mon'[p].pc = "loop"
                 /\ mon'[p].exit_status = -1
          /\ mon'[p].ticks > mon[p].ticks =>
                 \A f \in hist.unrenamed : fs[f].present => f \in Listed(mon'[p])
      ]_vars

\* a file whose rename failed in the first sweep, still there under its
\* original name, is in the list of the second sweep
C17_Witness ==
    \E p \in active :
        /\ mon[p].ticks = 2
        /\ mon[p].pc = "run"
        /\ Current(p) \in hist.unrenamed
        /\ fs[Current(p)].present
        /\ hist.settled = {}


\* the positions of a monitor inside the for loop of process_directory
InSweep == {"loop", "sleep", "run", "mark"}

\* C18: no error of a job ends the sweep or the run.  Every step that ends a
\* processing attempt with an error leads to mark_as_complete, every
\* mark_as_complete (the failed rename included) and every skip leads to the
\* next file; the for loop is left only after the last discovered file or by
\* the interrupt; no step ends the run with the status of an uncaught
\* exception; in continuous mode a sweep that returned is followed by the
\* next sweep or the interrupt.  When a sweep has returned, every discovered
\* file was handled: skipped, or passed on (to the script, or counted in a
\* dry run).
C18_ErrorsDoNotStopTheLoop ==
    [][\A p \in active :
          /\ mon'[p].pc # "crashed"
          /\ mon'[p].exit_status # 1
          /\ (mon[p].pc = "run" /\ mon'[p].outcome \notin {"none", "ok"}) =>
                 mon'[p].pc = "mark"
          /\ (mon[p].pc = "mark" /\ mon'[p] # mon[p] /\ mon'[p].pc # "stopped") =>
                 /\ mon'[p].pc = "loop"
                 /\ mon'[p].idx = mon[p].idx + 1
          /\ (mon[p].pc \in InSweep /\ mon'[p].pc \notin InSweep) =>
                 \/ mon'[p].pc = "stopped"
                 \/ /\ mon'[p].pc = "returned"
                    /\ mon[p].idx > Len(mon[p].prompt_files)
          /\ (mon[p].pc \in InSweep /\ mon'[p].pc \in InSweep) =>
                 /\ mon'[p].idx \in {mon[p].idx, mon[p].idx + 1}
                 /\ mon'[p].prompt_files = mon[p].prompt_files
          /\ (mon[p].pc = "returned" /\ mon'[p].pc # "returned") =>
                 mon'[p].pc \in (IF args.continuous THEN {"sweep", "stopped"}
                                                    ELSE {"done", "stopped"})
          /\ mon'[p].pc = "returned" =>
                 Len(mon'[p].skipped) + mon'[p].stable = Len(mon'[p].prompt_files)
      ]_vars

\* a sweep of two files has returned: the first attempt ended in an error and
\* the file was renamed .error, the second file was processed after it
C18_Witness ==
    \E p \in active :
        /\ mon[p].pc = "returned"
        /\ Len(mon[p].attempted) = 2
        /\ Len(mon[p].renames) = 2
        /\ EndsWith(mon[p].renames[1], <<"error">>)
        /\ mon[p].last.path = mon[p].attempted[2]


\* C19: when the chat request of a job is not over within the outer bound,
\* the script is killed (it does not go on to the append), the attempt counts
\* as failed with outcome Timeout, the file is renamed <original>.error and
\* the sweep goes on; a chat request that was over and let the script go on
\* took no longer than the bound; the bound is OuterTimeout whatever the
\* timeout option of the document is.
C19_OuterTimeout ==
    \A p \in active :
        /\ job[p].call > OuterTimeout =>
               /\ job[p].pc = "killed"
               /\ ~job[p].appended
               /\ job[p].generated_text = <<>>
               /\ mon[p].pc = "mark" =>
                      /\ mon[p].outcome = "Timeout"
                      /\ ~mon[p].success
                      /\ NewName(Current(p), mon[p].success)
                             = Current(p) \o <<"error">>
        /\ job[p].pc \in {"append", "exiting", "exited"} =>
               job[p].call <= OuterTimeout
        /\ (mon[p].last.read /\ mon[p].last.call > OuterTimeout) =>
               /\ mon[p].last.outcome = "Timeout"
               /\ ~mon[p].last.success
               /\ ~mon[p].last.appended
               /\ mon[p].last.target = mon[p].last.path \o <<"error">>
               /\ mon[p].pc \in {"loop", "returned", "sweep", "done"}
               /\ (mon[p].last.renamed /\ env.steps = 0) =>
                      /\ fs[mon[p].last.target].present
                      /\ ~fs[mon[p].last.path].present

\* the chat request of a document whose timeout option is longer than the
\* outer bound was cut off by the monitor, the file is renamed .error and
\* another discovered file is still to be handled
C19_Witness ==
    \E p \in active :
        /\ mon[p].pc = "loop"
        /\ mon[p].last.read
        /\ mon[p].last.call > OuterTimeout
        /\ mon[p].last.timeout > OuterTimeout
        /\ mon[p].last.requests = 2
        /\ mon[p].last.renamed
        /\ mon[p].idx <= Len(mon[p].prompt_files)

\* the options of the configuration block converted with int() or float()
NumericKeys == {"mt", "to", "temp", "topp"}

\* text that int() or float() does not take for the key, none for max_tokens
\* and timeout apart
NonNumeric(key, value) ==
    /\ value \notin {"num", "flt"}
    /\ ~(value = "none" /\ key \in {"mt", "to"})

\* a line 'key: value' of the configuration block gives a numeric option a
\* non-numeric value
BadOption(content) ==
    \E i \in 1..(Len(content) - 2) :
        /\ \A k \in 1..i : content[k] # "D"
        /\ i = 1 \/ content[i - 1] = "nl"
        /\ content[i] \in NumericKeys
        /\ content[i + 1] = ":"
        /\ NonNumeric(content[i], content[i + 2])

\* C20: a document whose configuration block gives a numeric option a
\* non-numeric value makes the script end with a configuration error and exit
\* status 1 before any request to the backend and before any append, and the
\* monitor renames the file <original>.error.
C20_BadOptionFails ==
    \A p \in active :
        /\ BadOption(job[p].content) =>
               /\ job[p].error = "ConfigError"
               /\ job[p].pc \in {"exited", "killed"}
               /\ job[p].requests = 0
               /\ ~job[p].appended
               /\ mon[p].pc = "mark" => ~mon[p].success
        /\ (mon[p].last.read /\ BadOption(mon[p].last.content)) =>
               /\ mon[p].last.outcome = "ConfigError"
               /\ mon[p].last.requests = 0
               /\ ~mon[p].last.appended
               /\ ~mon[p].last.success
               /\ mon[p].last.target = mon[p].last.path \o <<"error">>
               /\ (mon[p].last.renamed /\ env.steps = 0) =>
                      /\ fs[mon[p].last.target].present
                      /\ fs[mon[p].last.target].content = mon[p].last.content

\* a document with 'temperature: none' was run and renamed .error
C20_Witness ==
    \E p \in active :
        /\ mon[p].last.read
        /\ mon[p].last.renamed
        /\ mon[p].last.content = DocBadFloat
        /\ BadOption(mon[p].last.content)
        /\ EndsWith(mon[p].last.target, <<"error">>)

\* the same for 'max_tokens: x'
C20_BadInt ==
    \E p \in active :
        /\ mon[p].last.read
        /\ mon[p].last.renamed
        /\ mon[p].last.content = DocBadConfig
        /\ BadOption(mon[p].last.content)


\* C21: one monitor has at most one job in flight.  A script is running only
\* while the monitor is inside subprocess.run for the file the loop is at;
\* mark_as_complete is called only when that script has ended or was killed;
\* and when the stability check of a file begins, and while the script of a
\* file runs, mark_as_complete has been called for every file given to the
\* script before.
C21_OneJobInFlight ==
    \A p \in active :
        /\ job[p].pc \in InFlight =>
               /\ mon[p].pc = "run"
               /\ job[p].path = Current(p)
               /\ mon[p].attempted # <<>>
               /\ mon[p].attempted[Len(mon[p].attempted)] = Current(p)
        /\ mon[p].pc = "run" => mon[p].marked = Len(mon[p].attempted) - 1
        /\ mon[p].pc = "mark" =>
               /\ job[p].pc \in {"exited", "killed"}
               /\ mon[p].marked = Len(mon[p].attempted) - 1
        /\ mon[p].pc \in {"loop", "sleep", "returned"} =>
               /\ job[p].pc = "none"
               /\ mon[p].marked = Len(mon[p].attempted)

\* the stability check of the second file is under way: the script of the
\* first has ended and its rename was attempted
C21_Witness ==
    \E p \in active :
        /\ mon[p].pc = "sleep"
        /\ mon[p].idx = 2
        /\ Len(mon[p].attempted) = 1
        /\ mon[p].marked = 1
        /\ job[p].pc = "none"


\* C22: nothing makes one invocation wait for another.  A file that passed
\* the stability check of an invocation is given to its script whatever the
\* other invocation is doing with the file; a script sends requests only
\* after it read a document whose last turn is a human turn, so two
\* generations for one path come from two reads of the file under its
\* original name; and each append adds one block to what is in the file then.
C22_NoMutualExclusion ==
    \A p \in active :
        /\ (mon[p].check.done /\ mon[p].check.ready /\ ~args.dry_run) =>
               /\ mon[p].attempted # <<>>
               /\ mon[p].attempted[Len(mon[p].attempted)] = mon[p].check.path
               /\ mon[p].pc \in {"run", "mark"}
        /\ job[p].requests > 0 =>
               /\ job[p].parsed
               /\ HumanTail(job[p])
        /\ \A q \in active \ {p} :
               (/\ job[p].pc = "exiting" /\ job[q].pc = "exiting"
                /\ job[p].path = job[q].path
                /\ env.steps = 0) =>
                   \E b1, b2 \in {AppendedBlock(g, TRUE) : g \in GeneratedTexts} :
                       fs[job[p].path].content
                           = hist.fs0[job[p].path].content \o b1 \o b2

\* both invocations read the same document, both sent the chat request and
\* both appended a response, and neither has renamed the file yet
C22_Witness ==
    \E p, q \in active :
        /\ p # q
        /\ job[p].path = job[q].path
        /\ job[p].content = job[q].content
        /\ job[p].requests = 2 /\ job[q].requests = 2
        /\ job[p].appended /\ job[q].appended
        /\ mon[p].pc = "run" /\ mon[q].pc = "run"
        /\ fs[job[p].path].present
        /\ Len(fs[job[p].path].content)
               > Len(job[p].content) + Len(AppendedBlock(<<"y">>, TRUE))


\* the lines of the configuration block of a document, trimmed
ConfigBlockLines(content) ==
    LET d == FirstIn(content, {"D"}, 1)
        ls == SplitOn(SubSeq(content, 1, d - 1), {"nl"})
    IN  [i \in DOMAIN ls |-> Strip(ls[i])]

\* the line is 'max_tokens: ...' and no comment
SetsMaxTokens(line) == Len(line) >= 2 /\ line[1] = "mt" /\ line[2] = ":"

\* the value the last max_tokens line of the document gives: "absent" when no
\* line gives one, else the first word after the colon
MaxTokensGiven(content) ==
    LET ls == ConfigBlockLines(content)
        S == {i \in DOMAIN ls : SetsMaxTokens(ls[i])}
    IN  IF S = {} THEN "absent"
        ELSE LET l == ls[CHOOSE i \in S : \A k \in S : k <= i]
             IN  IF Len(l) >= 3 THEN l[3] ELSE "empty"

\* C23 as claimed: the request carries no token cap when max_tokens is absent
\* from the configuration block or is none; a cap is sent only for a numeric
\* max_tokens of the document.
C23_AsClaimed ==
    ppc = "request" =>
        /\ MaxTokensGiven(raw) \in {"absent", "none"} =>
               out.payload.num_predict = "absent"
        /\ out.payload.num_predict # "absent" => MaxTokensGiven(raw) = "num"

\* C23 amended: the request carries no token cap exactly when the document
\* sets max_tokens to none; with a numeric max_tokens it carries that number,
\* and when the document gives no max_tokens it carries the default cap 256.
C23_TokenCap ==
    ppc = "request" =>
        /\ MaxTokensGiven(raw) = "none" <=> out.payload.num_predict = "absent"
        /\ MaxTokensGiven(raw) = "num" <=> out.payload.num_predict = "num"
        /\ MaxTokensGiven(raw) = "absent" <=>
               out.payload.num_predict = ConfigDefaults.max_tokens
        /\ MaxTokensGiven(raw) \in {"none", "num", "absent"}

\* a request for a document whose only max_tokens line is commented out
C23_Witness ==
    /\ ppc = "request"
    /\ MaxTokensGiven(raw) = "absent"
    /\ \E i \in 1..Len(raw) : raw[i] = "mt"
    /\ out.payload.num_predict = "256"

\* a request for a document that sets max_tokens to none
C23_Unlimited ==
    /\ ppc = "request"
    /\ MaxTokensGiven(raw) = "none"
    /\ out.payload.num_predict = "absent"


\* parse_conversation_sections has been applied to the conversation text
SectionsParsed ==
    ppc \in {"sections", "messages"} \/ (ppc = "exit1" /\ out.file.error = "none")

\* the start of the first marker at or after position i, Len(s) + 1 when there
\* is none
NextMarker(s, i) ==
    LET S == MarkerStarts(s, i)
    IN  IF S = {} THEN Len(s) + 1 ELSE CHOOSE m \in S : \A k \in S : m <= k

\* the text from the first marker on
FromFirstMarker(s) == SubSeq(s, NextMarker(s, 1), Len(s))

\* C24: the text before the first marker is discarded: for a conversation
\* text with a marker, parse_conversation_sections gives what it gives for
\* the text from the first marker on (the same verdict, the same turns).
C24_PreambleDiscarded ==
    LET text == out.file.conversation_text
    IN  (SectionsParsed /\ MarkerStarts(text, 1) # {}) =>
            out.conv = parse_conversation_sections(FromFirstMarker(text))

\* the turns of the non-empty segments of s from position i on, each with the
\* kind of the marker right before it, in the order of the text
RECURSIVE TurnsFrom(_, _)
TurnsFrom(s, i) ==
    LET m == NextMarker(s, i)
    IN  IF m > Len(s) THEN <<>>
        ELSE LET e == NextMarker(s, m + 3)
                 segment == Strip(SubSeq(s, m + 3, e - 1))
             IN  (IF segment # <<>>
                  THEN <<[type |-> Lower(s[m + 1]), content |-> segment]>>
                  ELSE <<>>)
                 \o TurnsFrom(s, e)

\* C25: for every accepted conversation text the turns are, in document
\* order, the trimmed non-empty segments, each with the kind of the marker
\* that immediately precedes it.
C25_TurnsFollowMarkers ==
    (SectionsParsed /\ out.conv.error = "none") =>
        out.conv.sections = TurnsFrom(out.file.conversation_text, 1)


\* the first invocation was interrupted or died with a job in flight: the
\* subprocess was started for the file and the file was not yet renamed
StoppedInFlight ==
    /\ mon[Stopped].pc \in {"stopped", "crashed"}
    /\ job[Stopped].pc = "killed"

\* the file as the stopped job left it after its append
AfterFirstAppend ==
    job[Stopped].content \o AppendedBlock(job[Stopped].generated_text, TRUE)

\* the invocation started afterwards has made an attempt on that file
Reattempted ==
    /\ mon[Successor].last.read
    /\ mon[Successor].last.path = job[Stopped].path

\* outcomes of an attempt that come from outside the document
OutsideFailures ==
    {"Timeout", "BackendError", "GenerationError", "AppendError", "FileNotFound"}

\* C26 as stated: after a stop between the append and the rename, the next
\* sweep's attempt on the file appends a second time (whenever the backend
\* and the file system let it).
C26_AsClaimed ==
    (StoppedInFlight /\ job[Stopped].appended /\ Reattempted
     /\ mon[Successor].last.outcome \notin OutsideFailures) =>
        mon[Successor].last.appended

\* C26: after a stop between the append and the rename the file stays under
\* its name with the one appended block; the next sweep's attempt reads that
\* text, rejects it for its empty trailing ---HUMAN--- marker (as many
\* sections as before plus one, two more markers), appends nothing and the
\* file goes to .error with the single appended block.
C26_NoSecondAppend ==
    (StoppedInFlight /\ job[Stopped].appended) =>
        LET f == job[Stopped].path
            last == mon[Successor].last
        IN  /\ mon[Successor].marked = 0 /\ mon[Successor].ticks <= 1 =>
                    /\ fs[f].present
                    /\ fs[f].content = AfterFirstAppend
            /\ Reattempted =>
                    /\ ~last.appended
                    /\ ~last.success
                    /\ last.target = NewName(f, FALSE)
                    /\ last.outcome \notin OutsideFailures =>
                            /\ last.content = AfterFirstAppend
                            /\ last.error = "FormatError"
                    /\ last.renamed =>
                            fs[last.target].content = AfterFirstAppend

C26_Witness ==
    /\ StoppedInFlight
    /\ job[Stopped].appended
    /\ Reattempted
    /\ mon[Successor].last.error = "FormatError"
    /\ mon[Successor].last.renamed
    /\ fs[mon[Successor].last.target].content = AfterFirstAppend


\* the first invocation stopped with a job in flight that had appended
\* nothing, on a file no earlier attempt had left behind
StoppedBeforeAppend ==
    /\ StoppedInFlight
    /\ ~job[Stopped].appended
    /\ job[Stopped].path \notin hist.unrenamed

\* C27: when the monitor dies or is interrupted with a job in flight that has
\* appended nothing, the file is still there under its name with the content
\* it had; the first sweep of the next invocation lists it and, unless it is
\* a dry run, hands it to the script, which reads the unchanged text and
\* treats it as a first attempt would.
C27_StopBeforeAppend ==
    StoppedBeforeAppend =>
        LET f == job[Stopped].path
            original == hist.fs0[f].content
            next == mon[Successor]
        IN  /\ job[Stopped].content \in {<<>>, original}
            /\ next.marked = 0 /\ next.ticks <= 1 /\ ~job[Successor].appended =>
                    /\ fs[f].present
                    /\ fs[f].content = original
            /\ next.ticks = 1 => f \in Listed(next)
            /\ next.ticks = 1 /\ next.pc \in {"returned", "done"} /\ ~args.dry_run =>
                    f \in Attempted(next)
            /\ next.ticks = 1 /\ Reattempted =>
                    IF next.last.outcome = "Timeout" /\ next.last.content = <<>>
                    THEN ~next.last.appended
                    ELSE /\ next.last.content = original
                         /\ next.last.error = Prepare(original).error
                         /\ next.last.sections = Prepare(original).sections

C27_Witness ==
    /\ StoppedBeforeAppend
    /\ mon[Stopped].pc = "crashed"
    /\ job[Stopped].requests > 0
    /\ Reattempted
    /\ mon[Successor].last.content = hist.fs0[job[Stopped].path].content
    /\ mon[Successor].last.appended
    /\ mon[Successor].last.success
    /\ mon[Successor].last.renamed

\* the same after a keyboard interrupt
C27_Interrupted ==
    /\ StoppedBeforeAppend
    /\ mon[Stopped].pc = "stopped"
    /\ Reattempted
    /\ mon[Successor].last.appended


\* C28 as stated: after an attempt whose append failed the file is not
\* renamed.
C28_AsClaimed ==
    \A p \in active : mon[p].last.outcome = "AppendError" => ~mon[p].last.renamed

\* C28: an append failure ends the script with exit status 1 and the attempt
\* counts as failed like any other: the step of the monitor that follows is
\* mark_as_complete with success false, which renames the file to .error;
\* the file keeps its name only when that rename fails too.
C28_AppendFailure ==
    [][\A p \in active :
         (/\ mon[p].pc = "mark"
          /\ mon[p].outcome = "AppendError"
          /\ mon'[p] # mon[p]
          /\ mon'[p].pc \notin {"stopped", "crashed"}) =>
            LET f == Current(p)
                error_name == f \o <<"error">>
            IN  /\ ~mon[p].success
                /\ ~job[p].appended
                /\ mon'[p].last.target = error_name
                /\ \/ /\ mon'[p].last.renamed
                      /\ fs[f].present
                      /\ fs' = Rename(fs, f, error_name)
                      /\ ~fs'[f].present
                      /\ fs'[error_name] = fs[f]
                   \/ /\ ~mon'[p].last.renamed
                      /\ fs' = fs
                      /\ f \in hist'.unrenamed]_vars

C28_Witness ==
    \E p \in active :
        /\ mon[p].last.outcome = "AppendError"
        /\ mon[p].last.renamed
        /\ mon[p].last.target = mon[p].last.path \o <<"error">>
        /\ fs[mon[p].last.target].present
        /\ ~fs[mon[p].last.path].present


\* what was written behind the text the file held, cut into lines at '\n'
WrittenLines == SplitOn(SubSeq(out.appended, Len(raw) + 1, Len(out.appended)), {"nl"})

\* C29: append_response_to_file leaves what the file held and writes behind
\* it, in this order and nothing else: a blank separator (a line end and an
\* empty line), the ---AI--- line, one line '# Generated:' with the timestamp,
\* the seconds and, exactly when token statistics were given, the token
\* counts, the trimmed response, an empty line and the ---HUMAN--- line.
C29_AppendedBlock ==
    ppc = "appended" =>
        /\ IsPrefix(raw, out.appended)
        /\ \E a \in AppendInputs :
             LET ls == WrittenLines
                 n == Len(ls)
             IN  /\ n >= 8
                 /\ ls[1] = <<>>
                 /\ ls[2] = <<>>
                 /\ ls[3] = <<"D", "AI", "D">>
                 /\ ls[4] = IF a.token_info THEN <<"G", "ts", "secs", "tokens">>
                                            ELSE <<"G", "ts", "secs">>
                 /\ JoinLines(SubSeq(ls, 5, n - 3)) = Strip(a.response_text)
                 /\ ls[n - 2] = <<>>
                 /\ ls[n - 1] = <<"D", "HUMAN", "D">>
                 /\ ls[n] = <<>>

C29_Witness ==
    /\ ppc = "appended"
    /\ raw # <<>>
    /\ out.appended = raw \o <<"nl", "nl", "D", "AI", "D", "nl",
                               "G", "ts", "secs", "tokens", "nl",
                               "y", "nl", "nl", "D", "HUMAN", "D", "nl">>


\* the lines of a text that start, after leading whitespace, with '# Generated:'
MetaLines(text) ==
    LET ls == SplitOn(text, {"nl"})
    IN  {k \in 1..Len(ls) : StartsMetaIndented(ls[k])}

\* what append_response_to_file wrote behind the prompt file's text
WrittenBlock ==
    SubSeq(out.appended, Len(out.file.conversation_part) + 1, Len(out.appended))

\* C30: the text handed to append_response_to_file is the response without
\* its lines that start, after leading whitespace, with '# Generated:' (the
\* other lines kept in order, the whole trimmed), so that the block written
\* has exactly one such line, its fourth: the metadata line of the appender.
C30_OneGeneratedLine ==
    /\ ppc \in {"cleaned", "written"} =>
            /\ out.generated_text = CleanedBy(Strip(raw), StartsMetaIndented)
            /\ MetaLines(out.generated_text) = {}
    /\ ppc = "written" =>
            /\ MetaLines(WrittenBlock) = {4}
            /\ SplitOn(WrittenBlock, {"nl"})[4]
                   \in {<<"G", "ts", "secs">>, <<"G", "ts", "secs", "tokens">>}

C30_Witness ==
    /\ ppc = "written"
    /\ raw = <<"G", "nl", "sp", "G">>
    /\ out.generated_text = <<>>
    /\ MetaLines(WrittenBlock) = {4}

\* a response with a metadata line between two lines of text
C30_LineInside ==
    /\ ppc = "written"
    /\ raw = <<"y", "nl", "G", "nl">>
    /\ out.generated_text = <<"y">>


\* the file is under one of its terminal names and no longer under its own
Renamed(f) ==
    /\ ~fs[f].present
    /\ \E t \in {f \o <<"complete">>, f \o <<"error">>} :
          t \in hist.settled /\ fs[t].present

\* the stability check gave its verdict by the sizes: ready exactly when the
\* two samples were obtained and are equal
CheckIsStability ==
    mon[1].check.done =>
        (mon[1].check.ready <=> /\ mon[1].check.size1 = mon[1].check.size2
                                /\ mon[1].check.size1 # -1)

\* a job is running or waits for its rename only after a check of its file
\* that found the same size twice
ProcessedOnlyIfStable ==
    mon[1].pc \in {"run", "mark"} =>
        /\ mon[1].check.done
        /\ mon[1].check.path = Current(1)
        /\ mon[1].check.ready

\* every prompt file in the directory is in the list of the sweep under way
AllListed ==
    mon[1].pc \in {"loop", "sleep", "run", "mark", "returned"} =>
        \A f \in PromptNames : fs[f].present => f \in Listed(mon[1])

\* every file of the sweep's list is under a terminal name, or failed its
\* stability check in this sweep, or could not be renamed
SweepSettled ==
    \A f \in Listed(mon[1]) :
        \/ Renamed(f)
        \/ f \in {mon[1].skipped[i] : i \in DOMAIN mon[1].skipped}
        \/ f \in hist.unrenamed

\* C31: in continuous mode, once the monitor is past the busy check of its
\* start, every sweep lists every prompt file of the directory and comes to
\* its end with each of them under a terminal name, unless the file failed
\* its stability check in that sweep or its rename failed, and another sweep
\* follows (up to MaxTicks sweeps); a file is handed to the script only after
\* a check that found its size unchanged, so one whose size changes at every
\* check is never processed.
C31_ContinuousLiveness ==
    /\ (mon[1].pc = "sweep") ~> (mon[1].pc = "returned" /\ SweepSettled)
    /\ (mon[1].pc = "returned" /\ mon[1].ticks < MaxTicks) ~> (mon[1].pc = "sweep")
    /\ [](CheckIsStability /\ ProcessedOnlyIfStable /\ AllListed)

C31_Witness ==
    \E f \in PromptNames :
        /\ f \in hist.skipped
        /\ mon[1].ticks = 2
        /\ Renamed(f)
        /\ f \notin hist.unrenamed


\* b is what follows a at the end of the text s
EndsWithBlock(s, b) ==
    Len(s) >= Len(b) /\ SubSeq(s, Len(s) - Len(b) + 1, Len(s)) = b

\* the failures of the script before its append step
FailsBeforeAppend ==
    {"FormatError", "ConfigError", "NoSections", "LastNotHuman", "FileNotFound",
     "BackendError", "GenerationError"}

\* C32: the script ends with status 0 only after its one append, which puts
\* one block (from ---AI--- to the trailing ---HUMAN---) behind what the file
\* holds; no other step of the script changes any file, so a run that fails
\* before the append ends with a status other than 0 and the content as it
\* was.  Hence, when nobody else writes, a file renamed .complete ends with
\* the block of its job and a file that failed before the append is under
\* .error with the content the script read.
C32_ExitZeroOnlyAfterAppend ==
    /\ [](\A p \in active :
            /\ (mon[p].pc = "mark" /\ mon[p].success) =>
                    /\ mon[p].outcome = "ok"
                    /\ job[p].appended
            /\ (mon[p].pc = "mark" /\ mon[p].outcome \in FailsBeforeAppend) =>
                    /\ ~mon[p].success
                    /\ ~job[p].appended
            /\ (mon[p].last.renamed /\ env.steps = 0) =>
                    LET l == mon[p].last
                    IN  /\ l.success =>
                            /\ l.target = l.path \o <<"complete">>
                            /\ l.appended
                            /\ \E g \in GeneratedTexts :
                                 fs[l.target].content
                                     = l.content \o AppendedBlock(g, TRUE)
                        /\ l.outcome \in FailsBeforeAppend \ {"FileNotFound"} =>
                            /\ l.target = l.path \o <<"error">>
                            /\ fs[l.target].content = l.content)
    /\ [][\A p \in active :
            (mon[p].pc = "run" /\ job'[p] # job[p]) =>
                IF job[p].pc = "append" /\ job'[p].appended
                THEN /\ job'[p].pc = "exiting"
                     /\ fs' = [fs EXCEPT ![job[p].path] =
                                 File(@.content
                                      \o AppendedBlock(job[p].generated_text, TRUE))]
                ELSE /\ fs' = fs
                     /\ job'[p].appended = job[p].appended]_vars

C32_Witness ==
    \E p \in active :
        /\ env.steps = 0
        /\ mon[p].last.renamed
        /\ mon[p].last.success
        /\ mon[p].last.appended
        /\ EndsWithBlock(fs[mon[p].last.target].content,
                         AppendedBlock(<<"y">>, TRUE))

\* a run that failed before the append: the file under .error as it was read
C32_FailedBeforeAppend ==
    \E p \in active :
        /\ env.steps = 0
        /\ mon[p].last.renamed
        /\ mon[p].last.outcome = "LastNotHuman"
        /\ fs[mon[p].last.target].content = mon[p].last.content
        /\ mon[p].last.content = hist.fs0[mon[p].last.path].content


\* the text holds no ---HUMAN--- and no ---AI---
NoMarker(text) == MarkerStarts(text, 1) = {}

\* the turns of the document the round started from
RoundTurns == Prepare(raw).sections

\* the round was gone through with a response without marker and a question
\* that is not blank and has no marker
RoundDone ==
    /\ ppc = "reparsed"
    /\ NoMarker(out.generated_text)
    /\ NoMarker(out.human_text)
    /\ Strip(out.human_text) # <<>>

\* the edited file parses to the turns it had, one Ai turn that holds the
\* metadata line and the trimmed response, and the Human turn of the question
RoundSections ==
    LET n == Len(RoundTurns)
    IN  /\ out.file.error = "none"
        /\ out.conv.error = "none"
        /\ Len(out.conv.sections) = n + 2
        /\ SubSeq(out.conv.sections, 1, n) = RoundTurns
        /\ out.conv.sections[n + 1].type = "ai"
        /\ out.conv.sections[n + 1].content
              \in {Strip(StatsLine(t) \o Strip(out.generated_text)) : t \in BOOLEAN}
        /\ out.conv.sections[n + 2]
              = [type |-> "human", content |-> Strip(out.human_text)]

\* the messages: those of the turns, an assistant message with the given
\* content unless it is empty, the user message of the question
RoundMessages(assistant) ==
    out.messages =
        build_ollama_messages(RoundTurns)
        \o (IF assistant = <<>> THEN <<>>
            ELSE <<[role |-> "assistant", content |-> assistant]>>)
        \o <<[role |-> "user", content |-> Strip(out.human_text)]>>

\* C33 as stated: the assistant message of the round is the trimmed response
\* (left out when that is empty).
C33_AsClaimed ==
    RoundDone => RoundSections /\ RoundMessages(Strip(out.generated_text))

\* C33: a document the script accepts, a response without marker appended by
\* append_response_to_file and a question that is not blank added behind the
\* trailing ---HUMAN--- parse to the turns of the document, one Ai turn and
\* the Human turn of the trimmed question; the messages are those of the
\* document, an assistant message with the trimmed response without its
\* lines that start with '# Generated:' (left out when nothing remains of
\* it), and the user message of the question.
C33_RoundTrip ==
    RoundDone =>
        /\ RoundSections
        /\ RoundMessages(CleanedBy(Strip(out.generated_text), StartsMetaIndented))

C33_Witness ==
    /\ RoundDone
    /\ Len(RoundTurns) = 1
    /\ out.generated_text = <<"y", "nl">>
    /\ out.human_text = <<"sp", "x", "nl">>
    /\ out.messages = <<[role |-> "user", content |-> RoundTurns[1].content],
                        [role |-> "assistant", content |-> <<"y">>],
                        [role |-> "user", content |-> <<"x">>]>>

\* the empty response: no assistant message
C33_EmptyResponse ==
    /\ RoundDone
    /\ out.generated_text = <<>>
    /\ Len(out.conv.sections) = Len(RoundTurns) + 2
    /\ Len(out.messages) = Len(build_ollama_messages(RoundTurns)) + 1


\* C34: with --dry-run no step of the monitor starts the script, changes a
\* file's content or renames a file (the directory changes only by what
\* others do to it), and every sweep lists every prompt file that is in the
\* directory, those of the earlier sweeps included.
C34_DryRun ==
    /\ [](args.dry_run =>
            /\ \A p \in active :
                  /\ job[p] = NoJob
                  /\ mon[p].attempted = <<>>
                  /\ mon[p].renames = <<>>
                  /\ mon[p].marked = 0
                  /\ mon[p].pc \notin {"run", "mark"}
            /\ hist.settled = {}
            /\ env.steps = 0 => fs = hist.fs0)
    /\ [][args.dry_run =>
            \A p \in active :
                mon'[p] # mon[p] =>
                    /\ fs' = fs
                    /\ (mon[p].pc = "sweep" /\ mon'[p].pc # "stopped") =>
                          Listed(mon'[p]) = {f \in PromptNames : fs[f].present}]_vars

C34_Witness ==
    \E p \in active :
        /\ args.dry_run
        /\ mon[p].ticks = 2
        /\ mon[p].pc = "returned"
        /\ mon[p].processed_count = 2
        /\ Cardinality(Listed(mon[p])) = 2
        /\ fs = hist.fs0


\* C35: a step of the monitor itself (not of the script it started) leaves
\* every file as it is, except the step of mark_as_complete whose rename is
\* carried out: that one takes the job's file from its name and puts it,
\* with the content it had at that moment, under the terminal name, and
\* touches no other name.
C35_MonitorOnlyRenames ==
    [][\A p \in active :
         (mon'[p] # mon[p] /\ (mon[p].pc # "run" \/ mon'[p].outcome = "Timeout")) =>
            IF mon[p].pc = "mark" /\ mon'[p].last.renamed
            THEN LET f == Current(p)
                     t == mon'[p].last.target
                 IN  /\ t \in {f \o <<"complete">>, f \o <<"error">>}
                     /\ fs[f].present
                     /\ ~fs'[f].present
                     /\ fs'[t] = fs[f]
                     /\ \A n \in Names \ {f, t} : fs'[n] = fs[n]
            ELSE fs' = fs]_vars

C35_Witness ==
    \E p \in active :
        /\ mon[p].last.renamed
        /\ mon[p].last.appended
        /\ env.steps = 1
        /\ fs[mon[p].last.target].present
        /\ \E g \in GeneratedTexts :
              fs[mon[p].last.target].content
                  = mon[p].last.content \o AppendedBlock(g, TRUE) \o <<"x">>


\* C36: a step of mark_as_complete leaves every terminal file that is in the
\* directory before it with the content it has.
C36_TerminalFilesKept ==
    [][\A p \in active :
         (mon[p].pc = "mark" /\ mon'[p] # mon[p]) =>
            \A t \in TerminalNames : fs[t].present => fs'[t] = fs[t]]_vars

====
